---- MODULE Spec2Model ----
(***************************************************************************)
(* A model of the check-in analysis agent (src/src/agent/checkinAgent.js)  *)
(* and of the quality classifier (src/src/utils/checkinTransformer.js,     *)
(* lines 57-119).                                                          *)
(*                                                                         *)
(* JavaScript values are tagged records: [t |-> "undefined"],              *)
(* [t |-> "str", v |-> <<characters>>], [t |-> "num", v |-> n],            *)
(* [t |-> "date", day |-> d, ms |-> m].  A string is the tuple of its      *)
(* characters, so that toLowerCase, includes and the regular expressions   *)
(* of the source are computed character by character.                      *)
(*                                                                         *)
(* An instant is a local calendar day (day 0 is Monday 2024-01-01) and the *)
(* millisecond within it; the process runs in a zone without clock         *)
(* changes, so every day has MsPerDay milliseconds.                        *)
(*                                                                         *)
(* The controllers (src/unnamed/part_001) build a fresh agent for every    *)
(* request and call one operation on it: pc goes "ready" -> "done".        *)
(***************************************************************************)
EXTENDS Integers, Sequences, FiniteSets, TLC

VARIABLES checkins, roster, now, pc, call, result, slack

vars == <<checkins, roster, now, pc, call, result, slack>>

(***************************************************************************)
(* Bounds of the model                                                     *)
(***************************************************************************)
\* pieces of a classified text
MaxPieces == 2

\* check-ins handed to an agent in the window specification
MaxCheckins == 2

\* check-ins handed to an agent in the summary specification
MaxSummaryCheckins == 3

\* days on which a user checks in, in the month specification
MaxDaysCheckedIn == 10

\* entries of a roster
MaxRoster == 2

\* history pages Slack serves to one call
MaxPages == 2

(***************************************************************************)
(* JavaScript values                                                       *)
(***************************************************************************)
Undefined == [t |-> "undefined"]

Null == [t |-> "null"]

Str(chars) == [t |-> "str", v |-> chars]

Num(n) == [t |-> "num", v |-> n]

Arr(items) == [t |-> "array", v |-> items]

Bool(b) == [t |-> "bool", v |-> b]

IsStr(x) == x.t = "str"

\* ToBoolean: undefined, null, false, "" and 0 are falsy
Truthy(x) ==
  /\ x.t \notin {"undefined", "null"}
  /\ ~(x.t = "bool" /\ ~x.v)
  /\ ~(x.t = "str" /\ x.v = <<>>)
  /\ ~(x.t = "num" /\ x.v = 0)

\* a || b
OrElse(a, b) == IF Truthy(a) THEN a ELSE b

\* a fixed text of the code
Text(s) == [t |-> "text", v |-> s]

\* the outcome of a call: a returned value or a thrown error
Ok(v) == [threw |-> FALSE, value |-> v]

Threw(kind, message) == [threw |-> TRUE, kind |-> kind, message |-> message]

(***************************************************************************)
(* Strings                                                                 *)
(***************************************************************************)
UpperCase == <<"A","B","C","D","E","F","G","H","I","J","K","L","M",
               "N","O","P","Q","R","S","T","U","V","W","X","Y","Z">>

LowerCase == <<"a","b","c","d","e","f","g","h","i","j","k","l","m",
               "n","o","p","q","r","s","t","u","v","w","x","y","z">>

Digits == {"0","1","2","3","4","5","6","7","8","9"}

DecimalDigits == <<"0","1","2","3","4","5","6","7","8","9">>

\* \s of the regular expressions, as far as the model's alphabet goes
WhiteSpace == {" ", "\n", "\r", "\t"}

\* \w of the regular expressions
WordChars ==
  {UpperCase[i] : i \in 1..26} \cup {LowerCase[i] : i \in 1..26} \cup Digits \cup {"_"}

\* the lower-case letter of every upper-case letter
LowerOf ==
  [c \in {UpperCase[i] : i \in 1..26} |->
     LowerCase[CHOOSE i \in 1..26 : UpperCase[i] = c]]

toLowerCaseChar(c) == IF c \in DOMAIN LowerOf THEN LowerOf[c] ELSE c

\* String.prototype.toLowerCase
toLowerCase(s) == [i \in 1..Len(s) |-> toLowerCaseChar(s[i])]

\* sub occurs in s at offset i (0-based)
RECURSIVE MatchesAt(_, _, _, _)
MatchesAt(s, sub, i, k) ==
  \/ k > Len(sub)
  \/ /\ s[i + k] = sub[k]
     /\ MatchesAt(s, sub, i, k + 1)

\* String.prototype.includes
includes(s, sub) ==
  \E i \in 0..(Len(s) - Len(sub)) : MatchesAt(s, sub, i, 1)

\* keywords.some((keyword) => lower.includes(keyword))
includesSome(lower, keywords) ==
  \E k \in 1..Len(keywords) : includes(lower, keywords[k])

RECURSIVE Flatten(_)
Flatten(parts) ==
  IF parts = <<>> THEN <<>> ELSE Head(parts) \o Flatten(Tail(parts))

(***************************************************************************)
(* Quality classifier: src/src/utils/checkinTransformer.js 57-119          *)
(***************************************************************************)
STRONG_THRESHOLD == 80

MEDIUM_THRESHOLD == 40

Strong == Str(<<"S","t","r","o","n","g">>)

Medium == Str(<<"M","e","d","i","u","m">>)

Weak == Str(<<"W","e","a","k">>)

KEYWORD_GROUPS ==
  [ progress |-> <<
      <<"p","r","o","g","r","e","s","s">>,
      <<"c","o","m","p","l","e","t","e","d">>,
      <<"f","i","n","i","s","h","e","d">>,
      <<"s","h","i","p","p","e","d">>,
      <<"d","o","n","e">>,
      <<"a","c","h","i","e","v","e","d">> >>,
    plans |-> <<
      <<"p","l","a","n">>,
      <<"n","e","x","t">>,
      <<"t","o","d","a","y">>,
      <<"t","o","m","o","r","r","o","w">>,
      <<"f","o","c","u","s">> >>,
    blockers |-> <<
      <<"b","l","o","c","k","e","r">>,
      <<"s","t","u","c","k">>,
      <<"i","s","s","u","e">>,
      <<"p","r","o","b","l","e","m">>,
      <<"w","a","i","t","i","n","g">>,
      <<"h","e","l","p">> >> ]

\* Object.values(KEYWORD_GROUPS), in insertion order
KeywordGroupValues ==
  <<KEYWORD_GROUPS.progress, KEYWORD_GROUPS.plans, KEYWORD_GROUPS.blockers>>

\* text.trim().split(/\s+/).filter(Boolean).length: the pieces left between
\* the runs of blanks, one for every non-blank character that opens the text
\* or follows a blank one
countWords(text) ==
  Cardinality({i \in 1..Len(text) :
                 text[i] \notin WhiteSpace /\ (i = 1 \/ text[i - 1] \in WhiteSpace)})

\* score += 1 for every group one of whose keywords the lowered text includes
RECURSIVE scoreCompletenessFrom(_, _)
scoreCompletenessFrom(lower, g) ==
  IF g > Len(KeywordGroupValues) THEN 0
  ELSE (IF includesSome(lower, KeywordGroupValues[g]) THEN 1 ELSE 0)
       + scoreCompletenessFrom(lower, g + 1)

\* one point for every keyword found, not for every group
scoreCompleteness_perKeyword(text) ==
  Cardinality({<<g, k>> \in (1..3) \X (1..6) :
                 /\ k <= Len(KeywordGroupValues[g])
                 /\ includes(toLowerCase(text), KeywordGroupValues[g][k])})

scoreCompleteness(text) == scoreCompletenessFrom(toLowerCase(text), 1)

\* the end of the run of digits that starts at i
RECURSIVE DigitRunEnd(_, _)
DigitRunEnd(text, i) ==
  IF i < Len(text) /\ text[i + 1] \in Digits THEN DigitRunEnd(text, i + 1) ELSE i

\* text.match(/\b\d+\b/g).length: a match starts at a digit that has a word
\* boundary before it and whose whole run of digits (\d+ is greedy, and no
\* shorter run ends at a boundary) ends at a word boundary
matchNumbers(text) ==
  Cardinality({i \in 1..Len(text) :
                 /\ text[i] \in Digits
                 /\ i = 1 \/ text[i - 1] \notin WordChars
                 /\ LET j == DigitRunEnd(text, i)
                    IN  j = Len(text) \/ text[j + 1] \notin WordChars})

\* text.match(/[\n\r]-|\*/g).length: a line break followed by "-", or any "*"
matchBullets(text) ==
  Cardinality({i \in 1..Len(text) :
                 \/ text[i] \in {"\n", "\r"} /\ i < Len(text) /\ text[i + 1] = "-"
                 \/ text[i] = "*"})

Min(a, b) == IF a <= b THEN a ELSE b

\* the signals counted without the cap of 3
scoreSpecificity_uncapped(text) ==
  matchNumbers(text) + matchBullets(text)

scoreSpecificity(text) ==
  Min(matchNumbers(text) + matchBullets(text), 3)

\* The score in quarter points (the source's score times 4): the length score
\* is 0.25 a word, the two other terms are whole numbers.
calculateQualityScore(text) ==
  IF ~Truthy(text) THEN 0
  ELSE LET wordCount == countWords(text.v)
           completeness == scoreCompleteness(text.v) * 15
           specificity == scoreSpecificity(text.v) * 10
           lengthScore4 == Min(wordCount, 120)
       IN  4 * completeness + 4 * specificity + lengthScore4

\* the thresholds taken as strict
classifyCheckinQuality_strict(text) ==
  LET score4 == calculateQualityScore(text)
  IN  IF score4 > 4 * STRONG_THRESHOLD THEN Strong
      ELSE IF score4 > 4 * MEDIUM_THRESHOLD THEN Medium
      ELSE Weak

\* the score in quarter points held against the thresholds in points
classifyCheckinQuality_unscaled(text) ==
  LET score4 == calculateQualityScore(text)
  IN  IF score4 >= STRONG_THRESHOLD THEN Strong
      ELSE IF score4 >= MEDIUM_THRESHOLD THEN Medium
      ELSE Weak

classifyCheckinQuality(text) ==
  LET score4 == calculateQualityScore(text)
  IN  IF score4 >= 4 * STRONG_THRESHOLD THEN Strong
      ELSE IF score4 >= 4 * MEDIUM_THRESHOLD THEN Medium
      ELSE Weak

(***************************************************************************)
(* Dates: what the agent uses of dayjs                                     *)
(***************************************************************************)
MsPerDay == 24 * 60 * 60 * 1000

Date(day, ms) == [t |-> "date", day |-> day, ms |-> ms]

\* a dayjs object that isValid() denies; it formats as "Invalid Date"
InvalidDate == [t |-> "invalid"]

IsValid(d) == d.t = "date"

isLeapYear(y) == (y % 4 = 0 /\ y % 100 # 0) \/ y % 400 = 0

daysInMonth(y, m) ==
  IF m = 2 THEN (IF isLeapYear(y) THEN 29 ELSE 28)
  ELSE IF m \in {4, 6, 9, 11} THEN 30
  ELSE 31

\* the calendar date that lies `offset` days after the first of month m of
\* year y
RECURSIVE CivilFrom(_, _, _)
CivilFrom(y, m, offset) ==
  IF offset < 0
  THEN LET py == IF m = 1 THEN y - 1 ELSE y
           pm == IF m = 1 THEN 12 ELSE m - 1
       IN  CivilFrom(py, pm, offset + daysInMonth(py, pm))
  ELSE IF offset >= daysInMonth(y, m)
  THEN CivilFrom(IF m = 12 THEN y + 1 ELSE y, IF m = 12 THEN 1 ELSE m + 1,
                 offset - daysInMonth(y, m))
  ELSE [year |-> y, month |-> m, date |-> offset + 1]

\* year, month and day of the month of a day number (day 0 is 2024-01-01)
Civil(day) == CivilFrom(2024, 1, day)

\* the days from 1 January 2024 to 1 January of year y: 365 a year and one
\* more for every leap year between
daysBeforeYear(y) ==
  LET leapYearsBefore(year) ==
        ((year - 1) \div 4) - ((year - 1) \div 100) + ((year - 1) \div 400)
  IN  365 * (y - 2024) + leapYearsBefore(y) - leapYearsBefore(2024)

\* the days from 1 January of year y to the first of month m
daysBeforeMonth(y, m) ==
  <<0, 31, 59, 90, 120, 151, 181, 212, 243, 273, 304, 334>>[m]
  + (IF m > 2 /\ isLeapYear(y) THEN 1 ELSE 0)

\* dayjs(x): the clock for undefined, the instant for a date, local midnight
\* for a 'YYYY-MM-DD' text, an invalid date for null and for anything else
dayjs(x) ==
  IF x.t = "undefined" THEN now
  ELSE IF x.t = "date" THEN x
  ELSE IF x.t = "isodate"
  THEN Date(daysBeforeYear(x.year) + daysBeforeMonth(x.year, x.month) + x.date - 1, 0)
  ELSE InvalidDate

\* d.format('YYYY-MM-DD'): the text is determined by year, month and day
format(d) ==
  IF IsValid(d)
  THEN [t |-> "isodate"] @@ Civil(d.day)
  ELSE Str(<<"I","n","v","a","l","i","d"," ","D","a","t","e">>)

\* d.format('MMMM YYYY'): the name of the month and the year
formatMonthYear(d) ==
  IF IsValid(d)
  THEN [t |-> "monthyear", year |-> Civil(d.day).year, month |-> Civil(d.day).month]
  ELSE Str(<<"I","n","v","a","l","i","d"," ","D","a","t","e">>)

startOfDay(d) == IF IsValid(d) THEN Date(d.day, 0) ELSE d

endOfDay(d) == IF IsValid(d) THEN Date(d.day, MsPerDay - 1) ELSE d

startOfMonth(d) ==
  IF IsValid(d) THEN Date(d.day - (Civil(d.day).date - 1), 0) ELSE d

endOfMonth(d) ==
  IF IsValid(d)
  THEN LET c == Civil(d.day)
       IN  Date(d.day - (c.date - 1) + (daysInMonth(c.year, c.month) - 1), MsPerDay - 1)
  ELSE d

\* startOf('isoWeek'): the Monday of the week; day 0 is a Monday
startOfIsoWeek(d) == IF IsValid(d) THEN Date(d.day - (d.day % 7), 0) ELSE d

\* d.add(n, 'day'), d.subtract(n, 'day')
addDays(d, n) == IF IsValid(d) THEN Date(d.day + n, d.ms) ELSE d

isSameOrAfter(a, b) ==
  /\ IsValid(a)
  /\ IsValid(b)
  /\ a.day > b.day \/ (a.day = b.day /\ a.ms >= b.ms)

isSameOrBefore(a, b) ==
  /\ IsValid(a)
  /\ IsValid(b)
  /\ a.day < b.day \/ (a.day = b.day /\ a.ms <= b.ms)

\* a.valueOf() - b.valueOf() < 0, = 0, > 0 for two valid dates
compareDates(a, b) ==
  IF a.day # b.day THEN a.day - b.day ELSE a.ms - b.ms

\* dayjs(a).diff(b, 'day'): the whole days from b to a, truncated toward zero
diffDays(a, b) ==
  LET days == a.day - b.day
      rest == a.ms - b.ms
  IN  IF days > 0 /\ rest < 0 THEN days - 1
      ELSE IF days < 0 /\ rest > 0 THEN days + 1
      ELSE days

(***************************************************************************)
(* The agent: src/src/agent/checkinAgent.js                                *)
(***************************************************************************)
\* QUALITY_TO_SCORE[quality] || 0
QUALITY_TO_SCORE(quality) ==
  IF quality = Strong THEN 3
  ELSE IF quality = Medium THEN 2
  ELSE IF quality = Weak THEN 1
  ELSE 0

\* the e-mail address before user_id
normalizeRosterEntry_emailFirst(entry) ==
  IF entry.t = "str" THEN [id |-> entry, name |-> entry]
  ELSE IF entry.t = "array" THEN [id |-> Undefined, name |-> Undefined]
  ELSE IF entry.t = "object"
  THEN [id |-> OrElse(entry.id, OrElse(entry.email, OrElse(entry.user_id, entry.name))),
        name |-> OrElse(entry.name,
                        OrElse(entry.display_name, OrElse(entry.real_name, entry.id)))]
  ELSE Null

\* one roster entry, null for what is neither a string nor an object; an
\* array is an object without any of the fields
normalizeRosterEntry(entry) ==
  IF entry.t = "str" THEN [id |-> entry, name |-> entry]
  ELSE IF entry.t = "array" THEN [id |-> Undefined, name |-> Undefined]
  ELSE IF entry.t = "object"
  THEN [id |-> OrElse(entry.id, OrElse(entry.user_id, OrElse(entry.email, entry.name))),
        name |-> OrElse(entry.name,
                        OrElse(entry.display_name, OrElse(entry.real_name, entry.id)))]
  ELSE Null

\* roster.map(...).filter(Boolean); an absent roster is []
normalizeRoster(rawRoster) ==
  LET entries == IF rawRoster.t = "undefined" THEN <<>> ELSE rawRoster.v
  IN  SelectSeq([i \in 1..Len(entries) |-> normalizeRosterEntry(entries[i])],
                LAMBDA e : e # Null)

\* the entries whose id no earlier entry has, in order (Map insertion order)
RECURSIVE FirstOfEachId(_, _)
FirstOfEachId(entries, seen) ==
  IF entries = <<>> THEN <<>>
  ELSE IF Head(entries).id \in seen THEN FirstOfEachId(Tail(entries), seen)
  ELSE <<Head(entries)>> \o FirstOfEachId(Tail(entries), seen \cup {Head(entries).id})

uniqueUsersFromCheckins(items) ==
  FirstOfEachId(
    [i \in 1..Len(items) |->
       [id |-> items[i].user_id, name |-> OrElse(items[i].user_name, items[i].user_id)]],
    {})

normalizeQuality(quality, content) ==
  IF Truthy(quality) THEN quality
  ELSE classifyCheckinQuality(OrElse(content, Str(<<>>)))

\* the constructor's this.checkins
constructCheckins(rawCheckins) ==
  [i \in 1..Len(rawCheckins) |->
     [rawCheckins[i] EXCEPT !.quality =
        normalizeQuality(rawCheckins[i].quality, rawCheckins[i].message_content)]]

\* the inferred users before the roster
getAllStudents_checkinsFirst ==
  FirstOfEachId(uniqueUsersFromCheckins(checkins) \o roster, {})

getAllStudents == FirstOfEachId(roster \o uniqueUsersFromCheckins(checkins), {})

\* the filter with the end of the window excluded
getCheckinsByDateRange_endExcluded(start, end) ==
  SelectSeq(checkins,
            LAMBDA checkin :
              /\ isSameOrAfter(dayjs(checkin.timestamp), dayjs(start))
              /\ isSameOrBefore(dayjs(checkin.timestamp), dayjs(end))
              /\ dayjs(checkin.timestamp) # dayjs(end))

\* the filter with the start of the window excluded
getCheckinsByDateRange_startExcluded(start, end) ==
  SelectSeq(checkins,
            LAMBDA checkin :
              /\ isSameOrAfter(dayjs(checkin.timestamp), dayjs(start))
              /\ isSameOrBefore(dayjs(checkin.timestamp), dayjs(end))
              /\ dayjs(checkin.timestamp) # dayjs(start))

getCheckinsByDateRange(start, end) ==
  LET startDate == dayjs(start)
      endDate == dayjs(end)
  IN  SelectSeq(checkins,
                LAMBDA checkin :
                  /\ isSameOrAfter(dayjs(checkin.timestamp), startDate)
                  /\ isSameOrBefore(dayjs(checkin.timestamp), endDate))

getCheckinsForUser(userId, start, end) ==
  LET dateFiltered == IF Truthy(start) /\ Truthy(end)
                      THEN getCheckinsByDateRange(start, end)
                      ELSE checkins
  IN  SelectSeq(dateFiltered, LAMBDA checkin : checkin.user_id = userId)

\* Array.prototype.sort with the timestamp comparator: stable, so an entry
\* goes behind every entry that is not later than it
RECURSIVE InsertByTimestamp(_, _)
InsertByTimestamp(sorted, entry) ==
  IF sorted = <<>> THEN <<entry>>
  ELSE IF compareDates(dayjs(Head(sorted).timestamp), dayjs(entry.timestamp)) <= 0
  THEN <<Head(sorted)>> \o InsertByTimestamp(Tail(sorted), entry)
  ELSE <<entry>> \o sorted

RECURSIVE sortByTimestamp(_)
sortByTimestamp(entries) ==
  IF entries = <<>> THEN <<>>
  ELSE InsertByTimestamp(sortByTimestamp(SubSeq(entries, 1, Len(entries) - 1)),
                         entries[Len(entries)])

\* the sort as if it were applied to this.checkins itself
checkinsAfterSort_ofCheckins == sortByTimestamp(checkins)

\* this.checkins after the entries.sort(...) of summarizeDaily: sort works in
\* place, on the array that filter() made for getCheckinsForUser, so the
\* array of the agent keeps its order
checkinsAfterSort == checkins

summarizeDaily(userId, date) ==
  LET dayStart == startOfDay(dayjs(date))
      dayEnd == endOfDay(dayjs(date))
      entries == getCheckinsForUser(userId, dayStart, dayEnd)
  IN  IF Len(entries) = 0 THEN Null
      ELSE LET entry == sortByTimestamp(entries)[1]
           IN  [t |-> "daily",
                date |-> format(dayStart),
                message |-> entry.message_content,
                quality |-> entry.quality,
                timestamp |-> entry.timestamp]

RECURSIVE SumScores(_)
SumScores(entries) ==
  IF entries = <<>> THEN 0
  ELSE QUALITY_TO_SCORE(Head(entries).quality) + SumScores(Tail(entries))

\* the quotient cut off behind the second decimal
toFixed2_truncated(numerator, denominator) == (100 * numerator) \div denominator

\* Number((numerator / denominator).toFixed(2)) in hundredths, for a quotient
\* that is not negative: the nearest hundredth, the larger one halfway
toFixed2(numerator, denominator) ==
  (200 * numerator + denominator) \div (2 * denominator)

\* average_quality_score is in hundredths
summarizeRange(userId, start, end) ==
  LET entries == getCheckinsForUser(userId, start, end)
  IN  IF Len(entries) = 0 THEN Null
      ELSE LET score == SumScores(entries)
               n == Len(entries)
               quality == IF 2 * score >= 5 * n THEN Strong       \* average >= 2.5
                          ELSE IF 4 * score >= 7 * n THEN Medium  \* average >= 1.75
                          ELSE Weak
           IN  [t |-> "summary",
                start |-> format(dayjs(start)),
                end |-> format(dayjs(end)),
                total_checkins |-> n,
                average_quality_score |-> toFixed2(score, n),
                quality |-> quality,
                entries |-> entries]

blockerKeywords ==
  << <<"b","l","o","c","k","e","r">>,
     <<"b","l","o","c","k","e","d">>,
     <<"s","t","u","c","k">>,
     <<"i","s","s","u","e">>,
     <<"p","r","o","b","l","e","m">>,
     <<"w","a","i","t","i","n","g">>,
     <<"d","e","l","a","y">> >>

hasBlocker(entry) ==
  LET lower == toLowerCase(entry.message_content.v)
  IN  includesSome(lower, blockerKeywords)

\* entry.message_content.toLowerCase() is a TypeError for an entry without a
\* text; forEach then ends the call
extractBlockers(entries) ==
  IF \E i \in 1..Len(entries) : ~IsStr(entries[i].message_content)
  THEN Threw("TypeError", Text("Cannot read properties of undefined (reading 'toLowerCase')"))
  ELSE LET matching == SelectSeq(entries, hasBlocker)
       IN  Ok([i \in 1..Len(matching) |->
                 [user_id |-> matching[i].user_id,
                  user_name |-> matching[i].user_name,
                  timestamp |-> matching[i].timestamp,
                  message |-> matching[i].message_content]])

\* every record counted, not every day
calculateConsistency_perEntry(userId, start, end) ==
  LET entries == getCheckinsForUser(userId, start, end)
      totalDays == diffDays(dayjs(end), dayjs(start)) + 1
  IN  [days_checked_in |-> Len(entries),
       period_length |-> totalDays,
       percentage |-> IF totalDays > 0 THEN toFixed2(100 * Len(entries), totalDays)
                      ELSE 0]

\* the last day of the period not counted
calculateConsistency_dayShort(userId, start, end) ==
  LET entries == getCheckinsForUser(userId, start, end)
      totalDays == diffDays(dayjs(end), dayjs(start))
      uniqueDays == {format(dayjs(entries[i].timestamp)) : i \in 1..Len(entries)}
  IN  [days_checked_in |-> Cardinality(uniqueDays),
       period_length |-> totalDays,
       percentage |-> IF totalDays > 0
                      THEN toFixed2(100 * Cardinality(uniqueDays), totalDays)
                      ELSE 0]

calculateConsistency(userId, start, end) ==
  LET entries == getCheckinsForUser(userId, start, end)
      totalDays == diffDays(dayjs(end), dayjs(start)) + 1
  IN  IF Len(entries) = 0
      THEN [days_checked_in |-> 0, period_length |-> totalDays, percentage |-> 0]
      ELSE LET uniqueDays == {format(dayjs(entries[i].timestamp)) : i \in 1..Len(entries)}
           IN  [days_checked_in |-> Cardinality(uniqueDays),
                period_length |-> totalDays,
                \* Number(((size / totalDays) * 100).toFixed(2)), in hundredths
                percentage |-> toFixed2(100 * Cardinality(uniqueDays), totalDays)]

\* Ok(summary or null), or the error of extractBlockers
\* a week of eight days
summarizeWeek_eightDays(userId, weekStart) ==
  LET start == startOfDay(dayjs(weekStart))
      end == endOfDay(addDays(start, 7))
      summary == summarizeRange(userId, start, end)
  IN  IF summary = Null THEN Ok(Null)
      ELSE LET blockers == extractBlockers(summary.entries)
           IN  IF blockers.threw THEN blockers
               ELSE Ok(summary @@ [blockers |-> blockers.value])

summarizeWeek(userId, weekStart) ==
  LET start == startOfDay(dayjs(weekStart))
      end == endOfDay(addDays(start, 6))
      summary == summarizeRange(userId, start, end)
  IN  IF summary = Null THEN Ok(Null)
      ELSE LET blockers == extractBlockers(summary.entries)
           IN  IF blockers.threw THEN blockers
               ELSE Ok(summary @@ [blockers |-> blockers.value])

summarizeMonth(userId, month) ==
  LET start == startOfMonth(dayjs(month))
      end == endOfMonth(dayjs(month))
      summary == summarizeRange(userId, start, end)
  IN  IF summary = Null THEN Ok(Null)
      ELSE LET consistency == calculateConsistency(userId, start, end)
               blockers == extractBlockers(summary.entries)
           IN  IF blockers.threw THEN blockers
               ELSE Ok(summary @@ [consistency |-> consistency,
                                   blockers |-> blockers.value])

\* the students without any check-in at all, whatever the window
findMissingCheckins_anyTime(start, end) ==
  SelectSeq(getAllStudents,
            LAMBDA student :
              student.id \notin {checkins[i].user_id : i \in 1..Len(checkins)})

findMissingCheckins(start, end) ==
  LET students == getAllStudents
      inWindow == getCheckinsByDateRange(start, end)
      hasCheckedIn == {inWindow[i].user_id : i \in 1..Len(inWindow)}
  IN  SelectSeq(students, LAMBDA student : student.id \notin hasCheckedIn)

TypeDaily == <<"d","a","i","l","y">>

TypeWeekly == <<"w","e","e","k","l","y">>

TypeMonthly == <<"m","o","n","t","h","l","y">>

\* timeframe.type.toLowerCase() is a TypeError for a type that is no string
generateDashboard(userId, userName, timeframe) ==
  IF ~Truthy(userId)
  THEN Threw("Error", Text("userId is required to generate a dashboard."))
  ELSE IF ~Truthy(timeframe) \/ ~Truthy(timeframe.type)
  THEN Threw("Error", Text("A timeframe with a type is required (daily, weekly, monthly)."))
  ELSE IF ~IsStr(timeframe.type)
  THEN Threw("TypeError", Text("timeframe.type.toLowerCase is not a function"))
  ELSE
    LET type == toLowerCase(timeframe.type.v)
    IN  IF type = TypeDaily
        THEN LET date == OrElse(timeframe.date, timeframe.start)
             IN  IF ~Truthy(date)
                 THEN Threw("Error", Text("Daily dashboards require a date value."))
                 ELSE Ok([t |-> "dashboard",
                          user |-> userName,
                          type |-> Str(TypeDaily),
                          date |-> format(dayjs(date)),
                          summary |-> summarizeDaily(userId, date)])
        ELSE IF type = TypeWeekly
        THEN LET startValue == OrElse(timeframe.start, timeframe.date)
                 start == IF Truthy(startValue) THEN startOfIsoWeek(dayjs(startValue))
                          ELSE startOfIsoWeek(dayjs(Undefined))
                 summary == summarizeWeek(userId, start)
             IN  IF summary.threw THEN summary
                 ELSE Ok([t |-> "dashboard",
                          user |-> userName,
                          type |-> Str(TypeWeekly),
                          week_start |-> format(dayjs(start)),
                          week_end |-> format(addDays(dayjs(start), 6)),
                          summary |-> summary.value])
        ELSE IF type = TypeMonthly
        THEN LET monthValue ==
                   OrElse(timeframe.month,
                          OrElse(timeframe.start,
                                 OrElse(timeframe.date, format(dayjs(Undefined)))))
                 summary == summarizeMonth(userId, monthValue)
             IN  IF summary.threw THEN summary
                 ELSE Ok([t |-> "dashboard",
                          user |-> userName,
                          type |-> Str(TypeMonthly),
                          month |-> formatMonthYear(dayjs(monthValue)),
                          summary |-> summary.value])
        ELSE Threw("Error", [t |-> "text",
                             v |-> "Unsupported timeframe type: ${timeframe.type}",
                             type |-> timeframe.type])

(***************************************************************************)
(* The query interpreter: src/src/agent/checkinAgent.js 219-427            *)
(***************************************************************************)
\* String.prototype.trim
trim(s) ==
  LET kept == {i \in 1..Len(s) : s[i] \notin WhiteSpace}
  IN  IF kept = {} THEN <<>>
      ELSE SubSeq(s, CHOOSE i \in kept : \A j \in kept : i <= j,
                     CHOOSE i \in kept : \A j \in kept : i >= j)

\* sub occurs in s at offset i (0-based), which may lie outside s
matchesWithin(s, sub, i) ==
  /\ i >= 0
  /\ i + Len(sub) <= Len(s)
  /\ MatchesAt(s, sub, i, 1)

\* the length of the longest run of characters outside `stops` that starts
\* at offset i
runLength(s, i, stops) ==
  CHOOSE n \in 0..(Len(s) - i) :
    /\ \A k \in 1..n : s[i + k] \notin stops
    /\ i + n = Len(s) \/ s[i + n + 1] \in stops

\* the length of the run of digits that starts at offset i
digitRun(s, i) ==
  CHOOSE n \in 0..(Len(s) - i) :
    /\ \A k \in 1..n : s[i + k] \in Digits
    /\ i + n = Len(s) \/ s[i + n + 1] \notin Digits

least(S) == CHOOSE i \in S : \A j \in S : i <= j

\* Number(digits) for a run of decimal digits
RECURSIVE Number(_)
Number(digits) ==
  IF digits = <<>> THEN 0
  ELSE 10 * Number(SubSeq(digits, 1, Len(digits) - 1))
       + (CHOOSE n \in 0..9 : DecimalDigits[n + 1] = digits[Len(digits)])

\* lowerQuestion.match(/past (\d+) day/): the leftmost "past " with a run of
\* digits and " day" behind it
matchPastDays(lowerQuestion) ==
  LET past == <<"p","a","s","t"," ">>
      day == <<" ","d","a","y">>
      starts == {i \in 0..Len(lowerQuestion) :
                   /\ matchesWithin(lowerQuestion, past, i)
                   /\ digitRun(lowerQuestion, i + 5) >= 1
                   /\ matchesWithin(lowerQuestion, day,
                                    i + 5 + digitRun(lowerQuestion, i + 5))}
  IN  IF starts = {} THEN [found |-> FALSE]
      ELSE LET i == least(starts)
           IN  [found |-> TRUE,
                g1 |-> SubSeq(lowerQuestion, i + 6, i + 5 + digitRun(lowerQuestion, i + 5))]

\* question.match(/quality of ([^?]+?)'s check-in/i): the leftmost
\* "quality of ", then the shortest text without "?" that "'s check-in" follows
matchQualityName(question) ==
  LET lower == toLowerCase(question)
      head == <<"q","u","a","l","i","t","y"," ","o","f"," ">>
      tail == <<"'","s"," ","c","h","e","c","k","-","i","n">>
      lengths(i) == {k \in 1..(Len(question) - i - 11) :
                       /\ \A j \in 1..k : question[i + 11 + j] # "?"
                       /\ matchesWithin(lower, tail, i + 11 + k)}
      starts == {i \in 0..Len(question) :
                   matchesWithin(lower, head, i) /\ lengths(i) # {}}
  IN  IF starts = {} THEN [found |-> FALSE]
      ELSE LET i == least(starts)
           IN  [found |-> TRUE,
                g1 |-> SubSeq(question, i + 12, i + 11 + least(lengths(i)))]

\* question.match(/on ([^?]+?)(\?|$)/i): the leftmost "on " with a character
\* other than "?" behind it, then the text up to the next "?" or to the end
matchOnDate(question) ==
  LET lower == toLowerCase(question)
      head == <<"o","n"," ">>
      starts == {i \in 0..Len(question) :
                   /\ matchesWithin(lower, head, i)
                   /\ runLength(question, i + 3, {"?"}) >= 1}
  IN  IF starts = {} THEN [found |-> FALSE]
      ELSE LET i == least(starts)
           IN  [found |-> TRUE,
                g1 |-> SubSeq(question, i + 4, i + 3 + runLength(question, i + 3, {"?"}))]

\* question.match(/between ([^ ]+) and ([^?]+)/i): the leftmost "between "
\* with a run without blank, " and ", and a run without "?" behind it
matchBetween(question) ==
  LET lower == toLowerCase(question)
      head == <<"b","e","t","w","e","e","n"," ">>
      mid == <<" ","a","n","d"," ">>
      first(i) == runLength(question, i + 8, {" "})
      starts == {i \in 0..Len(question) :
                   /\ matchesWithin(lower, head, i)
                   /\ first(i) >= 1
                   /\ matchesWithin(lower, mid, i + 8 + first(i))
                   /\ runLength(question, i + 13 + first(i), {"?"}) >= 1}
  IN  IF starts = {} THEN [found |-> FALSE]
      ELSE LET i == least(starts)
               j == i + 13 + first(i)
           IN  [found |-> TRUE,
                g1 |-> SubSeq(question, i + 9, i + 8 + first(i)),
                g2 |-> SubSeq(question, j + 1, j + runLength(question, j, {"?"}))]

\* dayjs(trimmed, 'YYYY-MM-DD', true): the date of a text that is the
\* YYYY-MM-DD form of a date, an invalid date for every other text
parseIsoStrict(s) ==
  IF /\ Len(s) = 10
     /\ \A i \in {1, 2, 3, 4, 6, 7, 9, 10} : s[i] \in Digits
     /\ s[5] = "-" /\ s[8] = "-"
  THEN LET y == Number(SubSeq(s, 1, 4))
           m == Number(SubSeq(s, 6, 7))
           d == Number(SubSeq(s, 9, 10))
       IN  IF y >= 100 /\ m \in 1..12 /\ d >= 1 /\ d <= daysInMonth(y, m)
           THEN Date(daysBeforeYear(y) + daysBeforeMonth(y, m) + d - 1, 0)
           ELSE InvalidDate
  ELSE InvalidDate

weekdays ==
  << <<"m","o","n","d","a","y">>, <<"t","u","e","s","d","a","y">>, <<"w","e","d","n","e","s","d","a","y">>, <<"t","h","u","r","s","d","a","y">>,
     <<"f","r","i","d","a","y">>, <<"s","a","t","u","r","d","a","y">>, <<"s","u","n","d","a","y">> >>

\* a date, or null for a token that is neither a date, a weekday nor one of
\* yesterday, today, tomorrow
parseDateToken(token, referenceStart) ==
  LET stripped == trim(token)
      trimmed == IF stripped # <<>> /\ stripped[Len(stripped)] = "."
                 THEN SubSeq(stripped, 1, Len(stripped) - 1)
                 ELSE stripped
      lower == toLowerCase(trimmed)
  IN  IF IsValid(parseIsoStrict(trimmed)) THEN parseIsoStrict(trimmed)
      ELSE IF \E k \in 1..7 : weekdays[k] = lower
      THEN LET weekdayIndex == (CHOOSE k \in 1..7 : weekdays[k] = lower) - 1
               base == IF Truthy(referenceStart) THEN dayjs(referenceStart)
                       ELSE startOfIsoWeek(dayjs(Undefined))
           IN  addDays(base, weekdayIndex)
      ELSE IF lower = <<"y","e","s","t","e","r","d","a","y">> THEN addDays(dayjs(Undefined), -1)
      ELSE IF lower = <<"t","o","d","a","y">> THEN dayjs(Undefined)
      ELSE IF lower = <<"t","o","m","o","r","r","o","w">> THEN addDays(dayjs(Undefined), 1)
      ELSE Null

\* students.find(...): the first student of that name; user.name.toLowerCase()
\* is a TypeError for a student without a name that comes before
getUserByName(name) ==
  LET normalizedName == toLowerCase(trim(OrElse(name, Str(<<>>)).v))
      students == getAllStudents
      stops == {i \in 1..Len(students) :
                  \/ ~IsStr(students[i].name)
                  \/ toLowerCase(students[i].name.v) = normalizedName}
  IN  IF stops = {} THEN Ok(Undefined)
      ELSE IF ~IsStr(students[least(stops)].name)
      THEN Threw("TypeError", Text("Cannot read properties of undefined (reading 'toLowerCase')"))
      ELSE Ok(students[least(stops)])

\* Array.from(checkinsByUser.values()): one name for every user id, in the
\* order the ids first occur; the name is that of the id's last entry
checkedInNames(entries) ==
  LET sameUser(i, j) == entries[i].user_id = entries[j].user_id
      firsts == SelectSeq([i \in 1..Len(entries) |-> i],
                          LAMBDA i : \A j \in 1..(i - 1) : ~sameUser(i, j))
      last(i) == CHOOSE j \in i..Len(entries) :
                   sameUser(i, j) /\ \A k \in (j + 1)..Len(entries) : ~sameUser(i, k)
  IN  [k \in 1..Len(firsts) |-> entries[last(firsts[k])].user_name]

\* the attendance of today
answerYesterday_today ==
  LET today == dayjs(Undefined)
      day == format(today)
      start == startOfDay(dayjs(day))
      end == endOfDay(dayjs(day))
      entries == getCheckinsByDateRange(start, end)
      missing == findMissingCheckins(start, end)
      rosterProvided == Len(roster) > 0
  IN  Ok([t |-> "answer",
          question |-> Text("Who checked in yesterday and who did not?"),
          date |-> day,
          checked_in |-> checkedInNames(entries),
          missing |-> IF rosterProvided THEN [i \in 1..Len(missing) |-> missing[i].name]
                     ELSE <<>>,
          note |-> IF rosterProvided THEN Undefined ELSE Text("Provide a roster list to identify missing check-ins.")])

answerYesterday ==
  LET today == dayjs(Undefined)
      day == format(addDays(today, -1))
      start == startOfDay(dayjs(day))
      end == endOfDay(dayjs(day))
      entries == getCheckinsByDateRange(start, end)
      missing == findMissingCheckins(start, end)
      rosterProvided == Len(roster) > 0
  IN  Ok([t |-> "answer",
          question |-> Text("Who checked in yesterday and who did not?"),
          date |-> day,
          checked_in |-> checkedInNames(entries),
          missing |-> IF rosterProvided THEN [i \in 1..Len(missing) |-> missing[i].name]
                     ELSE <<>>,
          note |-> IF rosterProvided THEN Undefined ELSE Text("Provide a roster list to identify missing check-ins.")])

answerMissingRecent(lowerQuestion) ==
  LET match == matchPastDays(lowerQuestion)
      days == IF match.found THEN Number(match.g1) ELSE 3
      end == endOfDay(dayjs(Undefined))
      start == startOfDay(addDays(end, -(days - 1)))
      missing == findMissingCheckins(start, end)
      rosterProvided == Len(roster) > 0
  IN  Ok([t |-> "answer",
          question |-> Text("Students missing check-ins"),
          start |-> format(start),
          end |-> format(end),
          missing |-> IF rosterProvided THEN [i \in 1..Len(missing) |-> missing[i].name]
                     ELSE <<>>,
          note |-> IF rosterProvided THEN Undefined ELSE Text("Provide a roster list to identify missing check-ins.")])

Answer(question, answer) ==
  Ok([t |-> "answer", question |-> Str(question), answer |-> answer])

answerQualityQuestion(question) ==
  LET nameMatch == matchQualityName(question)
      dateMatch == matchOnDate(question)
  IN  IF ~nameMatch.found
      THEN Answer(question,
             Text("Please specify the student name whose check-in quality you want to review."))
      ELSE
        LET studentName == trim(nameMatch.g1)
            user == getUserByName(Str(studentName))
        IN  IF user.threw THEN user
            ELSE IF user.value = Undefined
            THEN Answer(question,
                   [text |-> "I could not find a student named ${studentName}.",
                    studentName |-> studentName])
            ELSE
              LET date == IF dateMatch.found THEN parseDateToken(dateMatch.g1, Undefined)
                          ELSE format(dayjs(Undefined))
              IN  IF ~Truthy(date)
                  THEN Answer(question, Text("I was unable to interpret the requested date."))
                  ELSE
                    LET daily == summarizeDaily(user.value.id, date)
                    IN  IF ~Truthy(daily)
                        THEN Answer(question,
                               [text |-> "${studentName} did not check in on ${date}.",
                                studentName |-> studentName,
                                date |-> format(dayjs(date))])
                        ELSE Ok([t |-> "answer",
                                 question |-> Str(question),
                                 answer |->
                                   [text |-> "${studentName}'s check-in on ${date} was classified as ${quality}.",
                                    studentName |-> studentName,
                                    date |-> daily.date,
                                    quality |-> daily.quality],
                                 details |-> daily])

\* Array.prototype.sort with the comparator b.score - a.score: stable, so an
\* item goes behind every item whose score is not smaller
RECURSIVE InsertByScore(_, _)
InsertByScore(sorted, item) ==
  IF sorted = <<>> THEN <<item>>
  ELSE IF Head(sorted).average_quality_score >= item.average_quality_score
  THEN <<Head(sorted)>> \o InsertByScore(Tail(sorted), item)
  ELSE <<item>> \o sorted

RECURSIVE sortByScore(_)
sortByScore(items) ==
  IF items = <<>> THEN <<>>
  ELSE InsertByScore(sortByScore(SubSeq(items, 1, Len(items) - 1)), items[Len(items)])

answerProgressThisWeek ==
  LET start == startOfIsoWeek(dayjs(Undefined))
      end == endOfDay(addDays(start, 6))
      students == getAllStudents
      ranking(student) ==
        LET summary == summarizeRange(student.id, start, end)
        IN  [student |-> student.name,
             average_quality_score |->
               IF summary = Null THEN 0 ELSE summary.average_quality_score,
             quality |->
               IF summary = Null THEN Str(<<"N","o"," ","D","a","t","a">>) ELSE summary.quality,
             checkins |-> IF summary = Null THEN 0 ELSE summary.total_checkins]
      rankings == SelectSeq([i \in 1..Len(students) |-> ranking(students[i])],
                            LAMBDA item : item.checkins > 0)
      sorted == sortByScore(rankings)
  IN  Ok([t |-> "answer",
          question |-> Text("Which students made the most substantial progress this week?"),
          week_start |-> format(start),
          week_end |-> format(end),
          top_students |-> SubSeq(sorted, 1, Min(5, Len(sorted)))])

\* the property key a user name is used as
propertyKey(name) ==
  IF IsStr(name) THEN name.v
  ELSE IF name = Null THEN <<"n","u","l","l">>
  ELSE <<"u","n","d","e","f","i","n","e","d">>

\* keys every object literal inherits a value for
ObjectPrototypeKeys ==
  { <<"c","o","n","s","t","r","u","c","t","o","r">>,
    <<"t","o","S","t","r","i","n","g">>,
    <<"v","a","l","u","e","O","f">>,
    <<"h","a","s","O","w","n","P","r","o","p","e","r","t","y">>,
    <<"_","_","p","r","o","t","o","_","_">> }

\* grouped[entry.user_name].push is a TypeError for a name that is an
\* inherited key of the object literal
answerDateRangeListing(question) ==
  LET match == matchBetween(question)
  IN  IF ~match.found
      THEN Answer(question,
             Text("Please specify the start and end dates for the query (e.g., between Monday and Wednesday)."))
      ELSE
        LET start == parseDateToken(match.g1, Undefined)
            end == parseDateToken(match.g2, start)
        IN  IF ~Truthy(start) \/ ~Truthy(end)
            THEN Answer(question, Text("I was unable to interpret the provided date range."))
            ELSE
              LET entries == getCheckinsByDateRange(startOfDay(dayjs(start)),
                                                    endOfDay(dayjs(end)))
                  key(i) == propertyKey(entries[i].user_name)
                  firsts == SelectSeq([i \in 1..Len(entries) |-> i],
                                      LAMBDA i : \A j \in 1..(i - 1) : key(j) # key(i))
                  item(entry) == [date |-> format(dayjs(entry.timestamp)),
                                  message |-> entry.message_content,
                                  quality |-> entry.quality]
                  group(i) ==
                    LET members == SelectSeq(entries,
                                     LAMBDA entry : propertyKey(entry.user_name) = key(i))
                    IN  [name |-> key(i),
                         items |-> [k \in 1..Len(members) |-> item(members[k])]]
              IN  IF \E i \in 1..Len(entries) : key(i) \in ObjectPrototypeKeys
                  THEN Threw("TypeError", Text("grouped[entry.user_name].push is not a function"))
                  ELSE Ok([t |-> "answer",
                           question |-> Str(question),
                           start |-> format(dayjs(start)),
                           end |-> format(dayjs(end)),
                           students |-> [k \in 1..Len(firsts) |-> group(firsts[k])]])

answerBlockersThisWeek ==
  LET start == startOfIsoWeek(dayjs(Undefined))
      end == endOfDay(addDays(start, 6))
      entries == getCheckinsByDateRange(start, end)
      blockers == extractBlockers(entries)
  IN  IF blockers.threw THEN blockers
      ELSE Ok([t |-> "answer",
               question |-> Text("What were the key blockers mentioned this week?"),
               week_start |-> format(start),
               week_end |-> format(end),
               blockers |-> blockers.value])

\* the quality question tried before the missing check-ins
answerQuestion_qualityFirst(question) ==
  LET lower == toLowerCase(question)
  IN  IF includes(lower, <<"w","h","o"," ","c","h","e","c","k","e","d"," ","i","n"," ","y","e","s","t","e","r","d","a","y">>)
      THEN answerYesterday
      ELSE IF includes(lower, <<"q","u","a","l","i","t","y"," ","o","f">>)
      THEN answerQualityQuestion(question)
      ELSE IF includes(lower, <<"w","h","o"," ","d","i","d","n","'","t">>) \/ includes(lower, <<"w","h","o"," ","d","i","d"," ","n","o","t">>)
      THEN answerMissingRecent(lower)
      ELSE IF includes(lower, <<"s","u","b","s","t","a","n","t","i","a","l"," ","p","r","o","g","r","e","s","s">>)
      THEN answerProgressThisWeek
      ELSE IF includes(lower, <<"b","e","t","w","e","e","n">>) /\ includes(lower, <<"c","h","e","c","k","e","d"," ","i","n">>)
      THEN answerDateRangeListing(question)
      ELSE IF includes(lower, <<"k","e","y"," ","b","l","o","c","k","e","r","s">>) \/ includes(lower, <<"b","l","o","c","k","e","r","s">>)
      THEN answerBlockersThisWeek
      ELSE Answer(question,
             Text("I'm not sure how to answer that yet, but I can help with check-in summaries, quality, blockers, and attendance."))

answerQuestion(question) ==
  LET lower == toLowerCase(question)
  IN  IF includes(lower, <<"w","h","o"," ","c","h","e","c","k","e","d"," ","i","n"," ","y","e","s","t","e","r","d","a","y">>)
      THEN answerYesterday
      ELSE IF includes(lower, <<"w","h","o"," ","d","i","d","n","'","t">>) \/ includes(lower, <<"w","h","o"," ","d","i","d"," ","n","o","t">>)
      THEN answerMissingRecent(lower)
      ELSE IF includes(lower, <<"q","u","a","l","i","t","y"," ","o","f">>)
      THEN answerQualityQuestion(question)
      ELSE IF includes(lower, <<"s","u","b","s","t","a","n","t","i","a","l"," ","p","r","o","g","r","e","s","s">>)
      THEN answerProgressThisWeek
      ELSE IF includes(lower, <<"b","e","t","w","e","e","n">>) /\ includes(lower, <<"c","h","e","c","k","e","d"," ","i","n">>)
      THEN answerDateRangeListing(question)
      ELSE IF includes(lower, <<"k","e","y"," ","b","l","o","c","k","e","r","s">>) \/ includes(lower, <<"b","l","o","c","k","e","r","s">>)
      THEN answerBlockersThisWeek
      ELSE Answer(question,
             Text("I'm not sure how to answer that yet, but I can help with check-in summaries, quality, blockers, and attendance."))

(***************************************************************************)
(* Inputs of the classifier: up to MaxPieces pieces, followed by a run of  *)
(* plain words that brings the word count to the thresholds and caps.      *)
(***************************************************************************)
SeqsUpTo(pool, n) == UNION {[1..k -> pool] : k \in 0..n}

TextPieces ==
  { <<"d","o","n","e"," ">>,
    <<"F","i","n","i","s","h","e","d"," ","a","n","d"," ",
      "c","o","m","p","l","e","t","e","d"," ">>,
    <<"P","l","a","n"," ">>,
    <<"s","t","u","c","k"," ">>,
    <<"3"," ">>,
    <<"v","2"," ">>,
    <<"P","l","a","n"," ","1"," ","2"," ","3"," ","4"," ">>,
    <<"\n","-"," ">>,
    <<"*"," ">> }

PadCounts == {0, 37, 38, 73, 74, 119, 120, 121}

\* n plain words "w "
Pad(n) == [i \in 1..(2 * n) |-> IF i % 2 = 1 THEN "w" ELSE " "]

\* a sentence of seven words with one progress keyword and one number
TextLogin ==
  Str(<<"F","i","n","i","s","h","e","d"," ","t","h","e"," ","l","o","g","i","n"," ","f","e","a","t","u","r","e",","," ","3"," ","P","R","s"," ","m","e","r","g","e","d",".">>)

Texts ==
  {Undefined, TextLogin}
  \cup {Str(Flatten(ps) \o Pad(n)) : ps \in SeqsUpTo(TextPieces, MaxPieces), n \in PadCounts}

(***************************************************************************)
(* Inputs of the agent                                                     *)
(***************************************************************************)
alice == Str(<<"a","l","i","c","e">>)

bob == Str(<<"b","o","b">>)

carol == Str(<<"c","a","r","o","l">>)

\* a short text with one progress keyword: Weak
TextDone == Str(<<"d","o","n","e">>)

\* two categories and one number: Medium
TextMedium == Str(<<"F","i","n","i","s","h","e","d"," ","3"," ","t","a","s","k","s",","," ","n","e","x","t"," ","p","l","a","n">>)

\* a text with a blocker keyword
TextStuck == Str(<<"S","t","u","c","k"," ","o","n"," ","t","h","e"," ","A","P","I">>)

\* a label that is none of the three
Great == Str(<<"G","r","e","a","t">>)

\* "m" and the two digits of n
MessageId(n) == Str(<<"m", DecimalDigits[(n \div 10) + 1], DecimalDigits[(n % 10) + 1]>>)

\* a raw record as the ingestion layer or the caller supplies it
Checkin(user, name, timestamp, content, quality) ==
  [message_id |-> Undefined, user_id |-> user, user_name |-> name,
   timestamp |-> timestamp, message_content |-> content, quality |-> quality]

\* the records of a request, numbered in order
WithMessageIds(items) ==
  [i \in 1..Len(items) |-> [items[i] EXCEPT !.message_id = MessageId(i)]]

\* a roster entry given as an object
RosterObject(id, name) ==
  [t |-> "object", id |-> id, user_id |-> Undefined, email |-> Undefined,
   name |-> name, display_name |-> Undefined, real_name |-> Undefined]

\* entries of a roster: strings, objects with every choice of fields given,
\* an object whose id is empty, an array, null, undefined, a number
RosterEntries ==
  { alice, Str(<<>>), Null, Undefined, Num(5), Arr(<<>>),
    [RosterObject(Str(<<>>), Undefined) EXCEPT !.user_id = carol] }
  \cup { [t |-> "object", id |-> id, user_id |-> user_id, email |-> email,
          name |-> name, display_name |-> display_name, real_name |-> real_name] :
            id \in {Undefined, bob},
            user_id \in {Undefined, carol},
            email \in {Undefined, Str(<<"b","@","x",".","i","o">>)},
            name \in {Undefined, Str(<<"B","o","b","b","y">>)},
            display_name \in {Undefined, Str(<<"b","o","b","b","y">>)},
            real_name \in {Undefined, Str(<<"R","o","b","e","r","t">>)} }

\* the start of a day, its last millisecond, and the start of the next day
T1 == Date(9, 0)

T2 == Date(9, MsPerDay - 1)

T3 == Date(10, 0)

Instants == {T1, T2, T3}

Users == {alice, bob}

WindowCheckins ==
  {Checkin(alice, Str(<<"A","l","i","c","e">>), ts, TextDone, Undefined) : ts \in Instants}
  \cup {Checkin(bob, Undefined, ts, TextDone, Undefined) : ts \in Instants}

WindowRosters ==
  { Undefined,
    Arr(<<alice, bob>>),
    Arr(<<RosterObject(bob, Str(<<"B","o","b","b","y">>)), Null, carol, bob>>) }

\* the records of one user with every kind of quality label (computed from
\* the text, passed through, passed through and none of the three), inside
\* and outside a window, and a record of somebody else
SummaryCheckins ==
  {Checkin(alice, Undefined, ts, content, Undefined) :
     ts \in {T1, T3}, content \in {TextDone, TextMedium}}
  \cup {Checkin(alice, Undefined, ts, Undefined, quality) :
          ts \in {T1, T3}, quality \in {Strong, Great}}
  \cup {Checkin(bob, Undefined, T1, TextDone, Undefined)}

\* anchors of monthly summaries: 10 April 2024 at noon, the first instant of
\* February 2024, the last millisecond of April 2024, 28 February 2025
MonthAnchors ==
  {Date(100, MsPerDay \div 2), Date(31, 0), Date(120, MsPerDay - 1), Date(424, 0)}

\* the windows the aggregates are called with: the edges of a day in every
\* order, and the calendar months of the anchors
Windows ==
  (Instants \X Instants)
  \cup {<<startOfMonth(anchor), endOfMonth(anchor)>> : anchor \in MonthAnchors}

\* alice checks in on `count` days, every `step` days from day `first` on,
\* `perDay` times a day: at the first and at the last millisecond of the day
MonthCheckins(first, step, count, perDay, content) ==
  [k \in 1..(count * perDay) |->
     Checkin(alice, Undefined,
             Date(first + ((k - 1) \div perDay) * step,
                  IF (k - 1) % perDay = 0 THEN 0 ELSE MsPerDay - 1),
             content, Undefined)]

\* the records of the agents that report: with a plain text, with a blocker,
\* without a text, on two days of the week of Monday 8 April 2024; records
\* at the first and the last instant of that week, at the last instant of
\* the week before and the first of the week after; a record of another user
DashboardCheckins ==
  {Checkin(alice, Str(<<"A","l","i","c","e">>), ts, content, Undefined) :
     ts \in {Date(100, 0), Date(102, MsPerDay \div 2)},
     content \in {TextDone, TextStuck, Undefined}}
  \cup {Checkin(alice, Str(<<"A","l","i","c","e">>), ts, TextStuck, Undefined) :
          ts \in {Date(98, 0), Date(104, MsPerDay - 1),
                  Date(97, MsPerDay - 1), Date(105, 0)}}
  \cup {Checkin(bob, Str(<<"B","o","b">>), Date(100, 0), TextStuck, Undefined)}

\* values of timeframe.type: absent, empty, the three types in several
\* spellings, an unknown type, a number
TimeframeTypes ==
  { Undefined, Str(<<>>), Str(TypeDaily), Str(<<"D","a","i","l","y">>), Str(<<"W","E","E","K","L","Y">>),
    Str(TypeMonthly), Str(<<"y","e","a","r","l","y">>), Num(7) }

Timeframe(type, date, start, month) ==
  [t |-> "object", type |-> type, date |-> date, start |-> start, month |-> month]

Timeframes ==
  {Undefined}
  \cup {Timeframe(type, date, start, month) :
          type \in TimeframeTypes,
          date \in {Undefined, Date(100, 0)},
          start \in {Undefined, Date(107, MsPerDay \div 2)},
          month \in {Undefined, Date(31, 0)}}

\* the records of the agents that answer, around Thursday 11 April 2024: with
\* and without a text, with and without a name, of this week and of the
\* week before, and one whose name is a key every object inherits
QueryCheckins ==
  { Checkin(alice, Str(<<"A","l","i","c","e">>), Date(100, 9 * 60 * 60 * 1000), TextStuck, Undefined),
    Checkin(alice, Str(<<"A","l","i","c","e">>), Date(100, 10 * 60 * 60 * 1000), Undefined, Undefined),
    Checkin(alice, Str(<<"A","l","i","c","e">>), Date(101, 8 * 60 * 60 * 1000), TextMedium, Undefined),
    Checkin(bob, Str(<<"B","o","b">>), Date(99, 0), TextDone, Undefined),
    Checkin(bob, Undefined, Date(93, 0), TextStuck, Undefined),
    Checkin(carol, Str(<<"c","o","n","s","t","r","u","c","t","o","r">>), Date(100, 0), TextDone, Undefined) }

\* no roster, a roster of an id and an object, a roster with an object that
\* has an e-mail address only
QueryRosters ==
  { Undefined,
    Arr(<<alice, RosterObject(bob, Str(<<"B","o","b">>))>>),
    Arr(<<alice, [RosterObject(Undefined, Undefined) EXCEPT !.email = Str(<<"z","@","x",".","i","o">>)]>>) }

Questions ==
  { <<"W","h","o"," ","c","h","e","c","k","e","d"," ","i","n"," ","y","e","s","t","e","r","d","a","y","?">>,
    <<"W","H","O"," ","C","H","E","C","K","E","D"," ","I","N"," ","Y","E","S","T","E","R","D","A","Y">>,
    <<"W","h","o"," ","d","i","d","n","'","t"," ","c","h","e","c","k"," ","i","n","?">>,
    <<"W","h","o"," ","d","i","d"," ","n","o","t"," ","c","h","e","c","k"," ","i","n"," ","o","v","e","r"," ","t","h","e"," ","p","a","s","t"," ","2"," ","d","a","y","s","?">>,
    <<"w","h","o"," ","d","i","d","n","'","t"," ","c","h","e","c","k"," ","i","n"," ","t","h","e"," ","p","a","s","t"," ","0"," ","d","a","y","s">>,
    <<"W","h","a","t"," ","w","a","s"," ","t","h","e"," ","q","u","a","l","i","t","y"," ","o","f"," ","A","l","i","c","e","'","s"," ","c","h","e","c","k","-","i","n"," ","o","n"," ","2","0","2","4","-","0","4","-","1","0","?">>,
    <<"W","h","a","t"," ","w","a","s"," ","t","h","e"," ","q","u","a","l","i","t","y"," ","o","f"," ","a","l","i","c","e"," ","'","s"," ","c","h","e","c","k","-","i","n"," ","o","n"," ","T","h","u","r","s","d","a","y","?">>,
    <<"Q","u","a","l","i","t","y"," ","o","f"," ","B","o","b","'","s"," ","C","h","e","c","k","-","I","n">>,
    <<"q","u","a","l","i","t","y"," ","o","f"," ","Z","e","d","'","s"," ","c","h","e","c","k","-","i","n"," ","o","n"," ","t","o","d","a","y">>,
    <<"q","u","a","l","i","t","y"," ","o","f"," ","A","l","i","c","e","'","s"," ","c","h","e","c","k","-","i","n"," ","o","n"," ","s","o","m","e","d","a","y","?">>,
    <<"q","u","a","l","i","t","y"," ","o","f"," ","A","l","i","c","e","'","s"," ","c","h","e","c","k","-","i","n"," ","o","n"," ","2","0","2","4","-","0","2","-","3","0","?">>,
    <<"q","u","a","l","i","t","y"," ","o","f"," ","A","l","i","c","e">>,
    <<"W","h","o"," ","m","a","d","e"," ","s","u","b","s","t","a","n","t","i","a","l"," ","p","r","o","g","r","e","s","s"," ","t","h","i","s"," ","w","e","e","k","?">>,
    <<"W","h","o"," ","c","h","e","c","k","e","d"," ","i","n"," ","b","e","t","w","e","e","n"," ","M","o","n","d","a","y"," ","a","n","d"," ","W","e","d","n","e","s","d","a","y","?">>,
    <<"W","h","o"," ","c","h","e","c","k","e","d"," ","i","n"," ","b","e","t","w","e","e","n"," ","T","u","e","s","d","a","y"," ","a","n","d"," ","W","e","d","n","e","s","d","a","y","?">>,
    <<"W","h","o"," ","c","h","e","c","k","e","d"," ","i","n"," ","b","e","t","w","e","e","n"," ","2","0","2","4","-","0","4","-","0","3"," ","a","n","d"," ","F","r","i","d","a","y","?">>,
    <<"W","h","o"," ","c","h","e","c","k","e","d"," ","i","n"," ","b","e","t","w","e","e","n"," ","2","0","2","4","-","0","4","-","0","8"," ","a","n","d"," ","2","0","2","4","-","0","4","-","1","0","?">>,
    <<"c","h","e","c","k","e","d"," ","i","n"," ","b","e","t","w","e","e","n"," ","y","e","s","t","e","r","d","a","y"," ","a","n","d"," ","t","o","m","o","r","r","o","w",".">>,
    <<"c","h","e","c","k","e","d"," ","i","n"," ","b","e","t","w","e","e","n"," ","f","o","o"," ","a","n","d"," ","b","a","r">>,
    <<"c","h","e","c","k","e","d"," ","i","n"," ","b","e","t","w","e","e","n"," ","M","o","n","d","a","y">>,
    <<"W","h","a","t"," ","w","e","r","e"," ","t","h","e"," ","k","e","y"," ","b","l","o","c","k","e","r","s"," ","t","h","i","s"," ","w","e","e","k","?">>,
    <<"A","n","y"," ","B","L","O","C","K","E","R","S","?">>,
    <<"H","e","l","l","o">>,
    <<>>,
    <<"W","h","o"," ","c","h","e","c","k","e","d"," ","i","n"," ","y","e","s","t","e","r","d","a","y"," ","a","n","d"," ","w","h","o"," ","d","i","d","n","'","t","?">>,
    <<"W","h","o"," ","d","i","d","n","'","t"," ","r","e","p","o","r","t"," ","t","h","e"," ","q","u","a","l","i","t","y"," ","o","f"," ","A","l","i","c","e","'","s"," ","c","h","e","c","k","-","i","n","?">>,
    <<"W","h","a","t"," ","w","a","s"," ","t","h","e"," ","q","u","a","l","i","t","y"," ","o","f"," ","t","h","e"," ","s","u","b","s","t","a","n","t","i","a","l"," ","p","r","o","g","r","e","s","s","?">>,
    <<"W","h","o"," ","m","a","d","e"," ","s","u","b","s","t","a","n","t","i","a","l"," ","p","r","o","g","r","e","s","s"," ","a","n","d"," ","c","h","e","c","k","e","d"," ","i","n"," ","b","e","t","w","e","e","n"," ","M","o","n","d","a","y"," ","a","n","d"," ","F","r","i","d","a","y","?">>,
    <<"W","h","o"," ","c","h","e","c","k","e","d"," ","i","n"," ","b","e","t","w","e","e","n"," ","M","o","n","d","a","y"," ","a","n","d"," ","F","r","i","d","a","y"," ","w","i","t","h"," ","b","l","o","c","k","e","r","s","?">>,
    <<"k","e","y"," ","b","l","o","c","k","e","r","s"," ","w","h","o"," ","d","i","d"," ","n","o","t">>,
    <<"b","e","t","w","e","e","n"," ","b","l","o","c","k","e","r","s">> }

(***************************************************************************)
(* Operations                                                              *)
(***************************************************************************)
CalculateQualityScore ==
  /\ pc = "ready"
  /\ \E text \in Texts :
       /\ call' = [op |-> "calculateQualityScore", text |-> text]
       /\ result' = Ok(Num(calculateQualityScore(text)))
  /\ pc' = "done"
  /\ UNCHANGED <<checkins, roster, now, slack>>

ClassifyCheckinQuality ==
  /\ pc = "ready"
  /\ \E text \in Texts :
       /\ call' = [op |-> "classifyCheckinQuality", text |-> text]
       /\ result' = Ok(classifyCheckinQuality(text))
  /\ pc' = "done"
  /\ UNCHANGED <<checkins, roster, now, slack>>

\* the constructor's this.roster = normalizeRoster(roster)
NormalizeRoster ==
  /\ pc = "ready"
  /\ \E rawRoster \in {Undefined} \cup {Arr(entries) : entries \in SeqsUpTo(RosterEntries, MaxRoster)} :
       /\ call' = [op |-> "normalizeRoster", roster |-> rawRoster]
       /\ result' = Ok(Arr(normalizeRoster(rawRoster)))
       /\ roster' = normalizeRoster(rawRoster)
  /\ pc' = "done"
  /\ UNCHANGED <<checkins, now, slack>>

GetAllStudents ==
  /\ pc = "ready"
  /\ call' = [op |-> "getAllStudents"]
  /\ result' = Ok(Arr(getAllStudents))
  /\ pc' = "done"
  /\ UNCHANGED <<checkins, roster, now, slack>>

GetCheckinsByDateRange ==
  /\ pc = "ready"
  /\ \E start \in Instants, end \in Instants :
       /\ call' = [op |-> "getCheckinsByDateRange", start |-> start, end |-> end]
       /\ result' = Ok(Arr(getCheckinsByDateRange(start, end)))
  /\ pc' = "done"
  /\ UNCHANGED <<checkins, roster, now, slack>>

GetCheckinsForUser ==
  /\ pc = "ready"
  /\ \E userId \in Users, start \in Instants \cup {Undefined},
        end \in Instants \cup {Undefined} :
       /\ call' = [op |-> "getCheckinsForUser", userId |-> userId,
                   start |-> start, end |-> end]
       /\ result' = Ok(Arr(getCheckinsForUser(userId, start, end)))
  /\ pc' = "done"
  /\ UNCHANGED <<checkins, roster, now, slack>>

SummarizeRange ==
  /\ pc = "ready"
  /\ \E userId \in Users, start \in Instants, end \in Instants :
       /\ call' = [op |-> "summarizeRange", userId |-> userId,
                   start |-> start, end |-> end]
       /\ result' = Ok(summarizeRange(userId, start, end))
  /\ pc' = "done"
  /\ UNCHANGED <<checkins, roster, now, slack>>

CalculateConsistency ==
  /\ pc = "ready"
  /\ \E userId \in Users, window \in Windows :
       /\ call' = [op |-> "calculateConsistency", userId |-> userId,
                   start |-> window[1], end |-> window[2]]
       /\ result' = Ok(calculateConsistency(userId, window[1], window[2]))
  /\ pc' = "done"
  /\ UNCHANGED <<checkins, roster, now, slack>>

FindMissingCheckins ==
  /\ pc = "ready"
  /\ \E start \in Instants, end \in Instants :
       /\ call' = [op |-> "findMissingCheckins", start |-> start, end |-> end]
       /\ result' = Ok(Arr(findMissingCheckins(start, end)))
  /\ pc' = "done"
  /\ UNCHANGED <<checkins, roster, now, slack>>

SummarizeDaily ==
  /\ pc = "ready"
  /\ \E userId \in Users, date \in {Date(100, MsPerDay \div 2), Date(102, 0)} :
       /\ call' = [op |-> "summarizeDaily", userId |-> userId, date |-> date]
       /\ result' = Ok(summarizeDaily(userId, date))
  /\ pc' = "done"
  /\ checkins' = checkinsAfterSort
  /\ UNCHANGED <<roster, now, slack>>

SummarizeWeek ==
  /\ pc = "ready"
  /\ \E userId \in Users, weekStart \in {Date(91, 0), Date(98, 0)} :
       /\ call' = [op |-> "summarizeWeek", userId |-> userId, weekStart |-> weekStart]
       /\ result' = summarizeWeek(userId, weekStart)
  /\ pc' = "done"
  /\ UNCHANGED <<checkins, roster, now, slack>>

\* the entries are an array of the caller's: all records, or those of a user
ExtractBlockers ==
  /\ pc = "ready"
  /\ \E entries \in {checkins} \cup {getCheckinsForUser(userId, Undefined, Undefined) : userId \in Users} :
       /\ call' = [op |-> "extractBlockers", entries |-> Arr(entries)]
       /\ result' = extractBlockers(entries)
  /\ pc' = "done"
  /\ UNCHANGED <<checkins, roster, now, slack>>

SummarizeMonth ==
  /\ pc = "ready"
  /\ \E userId \in Users, month \in MonthAnchors :
       /\ call' = [op |-> "summarizeMonth", userId |-> userId, month |-> month]
       /\ result' = summarizeMonth(userId, month)
  /\ pc' = "done"
  /\ UNCHANGED <<checkins, roster, now, slack>>

GenerateDashboard ==
  /\ pc = "ready"
  /\ \E userId \in {Undefined, Str(<<>>), alice}, timeframe \in Timeframes :
       /\ call' = [op |-> "generateDashboard", userId |-> userId,
                   userName |-> Str(<<"A","l","i","c","e">>), timeframe |-> timeframe]
       /\ result' = generateDashboard(userId, Str(<<"A","l","i","c","e">>), timeframe)
  /\ pc' = "done"
  /\ UNCHANGED <<checkins, roster, now, slack>>

AnswerQuestion ==
  /\ pc = "ready"
  /\ \E question \in Questions :
       /\ call' = [op |-> "answerQuestion", question |-> question]
       /\ result' = answerQuestion(question)
  /\ pc' = "done"
  /\ UNCHANGED <<checkins, roster, now, slack>>

(***************************************************************************)
(* The Slack service                                                       *)
(***************************************************************************)
\* new SlackService(token): the client; beside it the local variables of a
\* running fetchChannelMessages, the requests it has sent to
\* conversations.history and the responses it has received
SlackService(token) ==
  [client |-> IF Truthy(token) THEN [t |-> "WebClient"] ELSE Null,
   aggregated |-> <<>>,
   hasMore |-> Undefined,
   cursor |-> Undefined,
   requests |-> <<>>,
   responses |-> <<>>]

SlackMessage(text, subtype) == [t |-> "object", text |-> text, subtype |-> subtype]

\* what conversations.history may answer: an error; or a page with no
\* message list, an empty one, or messages with and without subtype and
\* text, with has_more true, false or missing, and with a next cursor, an
\* empty one or no response_metadata
Responses ==
  { [ok |-> Bool(FALSE), error |-> Str(<<"r","a","t","e","l","i","m","i","t","e","d">>), messages |-> Undefined,
     has_more |-> Undefined, response_metadata |-> Undefined] }
  \cup
  { [ok |-> Bool(TRUE), error |-> Undefined, messages |-> messages,
     has_more |-> has_more, response_metadata |-> response_metadata] :
      messages \in
        { Undefined,
          Arr(<<>>),
          Arr(<<SlackMessage(Str(<<"d","o","n","e">>), Undefined)>>),
          Arr(<<SlackMessage(Str(<<"j","o","i","n","e","d">>), Str(<<"c","h","a","n","n","e","l","_","j","o","i","n">>))>>),
          Arr(<<SlackMessage(Str(<<"s","t","u","c","k">>), Undefined), SlackMessage(Str(<<>>), Undefined)>>),
          Arr(<<SlackMessage(Undefined, Undefined), SlackMessage(Str(<<"p","l","a","n">>), Str(<<>>))>>) },
      has_more \in {Bool(TRUE), Bool(FALSE), Undefined},
      response_metadata \in
        { Undefined,
          [t |-> "object", next_cursor |-> Str(<<"c","1">>)],
          [t |-> "object", next_cursor |-> Str(<<>>)] } }

\* the filter with the subtype left out of account
keep_textOnly(message) == Truthy(message.text)

\* !message.subtype && !!message.text
keep(message) == ~Truthy(message.subtype) /\ Truthy(message.text)

\* the entry of fetchChannelMessages, up to the loop
FetchChannelMessages ==
  /\ pc = "ready"
  /\ call' = [op |-> "fetchChannelMessages", channelId |-> Str(<<"C","1">>),
              oldest |-> Num(0), latest |-> Num(1)]
  /\ IF ~Truthy(slack.client)
     THEN /\ result' = Threw("Error", Text("Slack Web API client is not configured. Please set the SLACK_BOT_TOKEN environment variable."))
          /\ pc' = "done"
          /\ slack' = slack
     ELSE /\ result' = result
          /\ pc' = "while"
          /\ slack' = [slack EXCEPT !.aggregated = <<>>, !.hasMore = Bool(TRUE),
                                    !.cursor = Undefined]
  /\ UNCHANGED <<checkins, roster, now>>

\* one round of the loop: the request, and what is done with the response
ConversationsHistory ==
  /\ pc = "while"
  /\ Truthy(slack.hasMore)
  /\ Len(slack.requests) < MaxPages
  /\ \E response \in Responses :
       LET request == [channel |-> call.channelId, oldest |-> call.oldest,
                       latest |-> call.latest, limit |-> 200,
                       cursor |-> slack.cursor, inclusive |-> TRUE]
           sent == [slack EXCEPT !.requests = Append(@, request),
                                 !.responses = Append(@, response)]
       IN  IF ~Truthy(response.ok)
           THEN /\ result' = Threw("Error", [t |-> "text",
                                             v |-> "Slack API error: ${response.error}",
                                             error |-> response.error])
                /\ pc' = "done"
                /\ slack' = sent
           ELSE /\ result' = result
                /\ pc' = "while"
                /\ slack' = [sent EXCEPT
                               !.aggregated = @ \o OrElse(response.messages, Arr(<<>>)).v,
                               !.hasMore = response.has_more,
                               !.cursor = IF response.response_metadata = Undefined
                                          THEN Undefined
                                          ELSE response.response_metadata.next_cursor]
  /\ UNCHANGED <<checkins, roster, now, call>>

\* the loop is left: return aggregated.filter(...)
ReturnFiltered ==
  /\ pc = "while"
  /\ ~Truthy(slack.hasMore)
  /\ result' = Ok(Arr(SelectSeq(slack.aggregated, keep)))
  /\ pc' = "done"
  /\ UNCHANGED <<checkins, roster, now, call, slack>>

NoCall == [op |-> "none"]

(***************************************************************************)
(* The classifier on its own, as the ingestion layer calls it              *)
(* (normalizeCheckins, checkinTransformer.js 46), beside an agent          *)
(* constructed from no record or from one record without a label.          *)
(***************************************************************************)
InitQuality ==
  /\ \E raw \in SeqsUpTo({Checkin(alice, Undefined, Date(1, 0), TextLogin, Undefined)}, 1) :
       checkins = constructCheckins(WithMessageIds(raw))
  /\ roster = <<>>
  /\ now = [t |-> "date", day |-> 0, ms |-> 0]
  /\ pc = "ready"
  /\ call = NoCall
  /\ result = Ok(Undefined)
  /\ slack = SlackService(Undefined)

SpecQuality == InitQuality /\ [][CalculateQualityScore \/ ClassifyCheckinQuality]_vars

(***************************************************************************)
(* An agent over records stamped at the edges of a day, and one call of a  *)
(* window filter or of an aggregate built on it.                           *)
(***************************************************************************)
Init ==
  /\ \E raw \in SeqsUpTo(WindowCheckins, MaxCheckins) :
       checkins = constructCheckins(WithMessageIds(raw))
  /\ \E rawRoster \in WindowRosters : roster = normalizeRoster(rawRoster)
  /\ now = Date(10, MsPerDay \div 2)
  /\ pc = "ready"
  /\ call = NoCall
  /\ result = Ok(Undefined)
  /\ slack = SlackService(Undefined)

Next ==
  \/ GetAllStudents
  \/ GetCheckinsByDateRange
  \/ GetCheckinsForUser
  \/ SummarizeRange
  \/ CalculateConsistency
  \/ FindMissingCheckins

Spec == Init /\ [][Next]_vars

(***************************************************************************)
(* The construction of an agent from a roster.                             *)
(***************************************************************************)
InitRoster ==
  /\ checkins = <<>>
  /\ roster = <<>>
  /\ now = Date(10, MsPerDay \div 2)
  /\ pc = "ready"
  /\ call = NoCall
  /\ result = Ok(Undefined)
  /\ slack = SlackService(Undefined)

SpecRoster == InitRoster /\ [][NormalizeRoster]_vars

(***************************************************************************)
(* An agent over records of every quality, and one summary of a window.    *)
(***************************************************************************)
InitSummary ==
  /\ \E raw \in SeqsUpTo(SummaryCheckins, MaxSummaryCheckins) :
       checkins = constructCheckins(WithMessageIds(raw))
  /\ roster = normalizeRoster(Undefined)
  /\ now = Date(10, MsPerDay \div 2)
  /\ pc = "ready"
  /\ call = NoCall
  /\ result = Ok(Undefined)
  /\ slack = SlackService(Undefined)

SpecSummary == InitSummary /\ [][SummarizeRange]_vars

(***************************************************************************)
(* An agent over the check-ins of a user on up to MaxDaysCheckedIn days in *)
(* and around April 2024, and one monthly summary or consistency call.     *)
(***************************************************************************)
InitMonth ==
  /\ \E first \in {85, 91, 115}, step \in {1, 3}, count \in 0..MaxDaysCheckedIn,
        perDay \in {1, 2}, content \in {TextDone, TextStuck, Undefined},
        others \in {<<>>, <<Checkin(bob, Undefined, Date(95, 0), TextDone, Undefined)>>} :
       checkins = constructCheckins(
                    WithMessageIds(MonthCheckins(first, step, count, perDay, content)
                                   \o others))
  /\ roster = normalizeRoster(Undefined)
  /\ now = Date(100, MsPerDay \div 2)
  /\ pc = "ready"
  /\ call = NoCall
  /\ result = Ok(Undefined)
  /\ slack = SlackService(Undefined)

SpecMonth == InitMonth /\ [][SummarizeMonth \/ CalculateConsistency]_vars

(***************************************************************************)
(* An agent and one call of generateDashboard.                             *)
(***************************************************************************)
InitDashboard ==
  /\ \E raw \in SeqsUpTo(DashboardCheckins, MaxCheckins) :
       checkins = constructCheckins(WithMessageIds(raw))
  /\ roster = normalizeRoster(Undefined)
  /\ now = Date(101, MsPerDay \div 2)
  /\ pc = "ready"
  /\ call = NoCall
  /\ result = Ok(Undefined)
  /\ slack = SlackService(Undefined)

SpecDashboard == InitDashboard /\ [][GenerateDashboard]_vars

(***************************************************************************)
(* An agent and one call of answerQuestion.                                *)
(***************************************************************************)
InitQuery ==
  /\ \E raw \in SeqsUpTo(QueryCheckins, MaxCheckins) :
       checkins = constructCheckins(WithMessageIds(raw))
  /\ \E rawRoster \in QueryRosters : roster = normalizeRoster(rawRoster)
  /\ now = Date(101, MsPerDay \div 2)
  /\ pc = "ready"
  /\ call = NoCall
  /\ result = Ok(Undefined)
  /\ slack = SlackService(Undefined)

SpecQuery == InitQuery /\ [][AnswerQuestion]_vars

(***************************************************************************)
(* An agent and a sequence of calls of its public operations: the caller   *)
(* takes a result and calls again.                                         *)
(***************************************************************************)
\* two records of one day, the later one with a text, the earlier one
\* without, held in either order
InitSession ==
  /\ \E order \in {<<1, 2>>, <<2, 1>>} :
       LET raw == <<Checkin(alice, Str(<<"A","l","i","c","e">>),
                            Date(100, 10 * 3600000), TextStuck, Undefined),
                    Checkin(alice, Undefined,
                            Date(100, 9 * 3600000), Undefined, Undefined)>>
       IN  checkins = constructCheckins(WithMessageIds(<<raw[order[1]], raw[order[2]]>>))
  /\ roster = normalizeRoster(Arr(<<alice, RosterObject(bob, Str(<<"B","o","b">>))>>))
  /\ now = Date(101, MsPerDay \div 2)
  /\ pc = "ready"
  /\ call = NoCall
  /\ result = Ok(Undefined)
  /\ slack = SlackService(Undefined)

Return ==
  /\ pc = "done"
  /\ pc' = "ready"
  /\ UNCHANGED <<checkins, roster, now, call, result, slack>>

SpecSession ==
  InitSession /\ [][\/ GetAllStudents
                    \/ GetCheckinsByDateRange
                    \/ GetCheckinsForUser
                    \/ SummarizeDaily
                    \/ SummarizeRange
                    \/ SummarizeWeek
                    \/ SummarizeMonth
                    \/ CalculateConsistency
                    \/ ExtractBlockers
                    \/ FindMissingCheckins
                    \/ AnswerQuestion
                    \/ GenerateDashboard
                    \/ Return]_vars

(***************************************************************************)
(* A Slack service and one call of fetchChannelMessages; every request is  *)
(* answered, and the function goes on when it can.                         *)
(***************************************************************************)
InitSlack ==
  /\ checkins = <<>>
  /\ roster = <<>>
  /\ now = Date(101, MsPerDay \div 2)
  /\ pc = "ready"
  /\ call = NoCall
  /\ result = Ok(Undefined)
  /\ \E token \in {Undefined, Str(<<"x","o","x","b">>)} : slack = SlackService(token)

SpecSlack ==
  /\ InitSlack
  /\ [][FetchChannelMessages \/ ConversationsHistory \/ ReturnFiltered]_vars
  /\ WF_vars(ConversationsHistory)
  /\ WF_vars(ReturnFiltered)

(***************************************************************************)
(* Claims                                                                  *)
(***************************************************************************)
Done(op) == pc = "done" /\ call.op = op

\* C4: classifyCheckinQuality(text) is Strong exactly when the score of the
\* text is at least 80, Medium exactly when it is at least 40 and below 80,
\* Weak otherwise; a missing or empty text scores 0 and is Weak; the label is
\* always one of the three.  (Scores are in quarter points.)
C4_LabelFollowsThresholds ==
  Done("classifyCheckinQuality") =>
    LET score4 == calculateQualityScore(call.text)
        label == result.value
    IN  /\ ~result.threw
        /\ label \in {Strong, Medium, Weak}
        /\ (label = Strong) = (score4 >= 4 * 80)
        /\ (label = Medium) = (score4 >= 4 * 40 /\ score4 < 4 * 80)
        /\ (label = Weak) = (score4 < 4 * 40)
        /\ (call.text = Undefined \/ call.text = Str(<<>>)) =>
             (score4 = 0 /\ label = Weak)

\* a text scoring exactly 80 is labelled Strong
C4_Witness ==
  /\ Done("classifyCheckinQuality")
  /\ calculateQualityScore(call.text) = 4 * 80
  /\ result.value = Strong

\* the keyword categories one of whose keywords occurs in the text
CategoriesPresent(chars) ==
  {g \in DOMAIN KEYWORD_GROUPS :
     \E n \in 1..Len(KEYWORD_GROUPS[g]) :
       LET keyword == KEYWORD_GROUPS[g][n]
       IN  \E i \in 0..(Len(chars) - Len(keyword)) :
             \A k \in 1..Len(keyword) : toLowerCaseChar(chars[i + k]) = keyword[k]}

\* the places where a digit token ends: a run of digits with no letter,
\* digit or underscore directly before or behind it
DigitTokens(chars) ==
  {j \in 1..Len(chars) :
     /\ chars[j] \in Digits
     /\ j = Len(chars) \/ chars[j + 1] \notin WordChars
     /\ \E i \in 1..j :
          /\ \A k \in i..j : chars[k] \in Digits
          /\ i = 1 \/ chars[i - 1] \notin WordChars}

\* the bullet markers: every "*", and every "-" directly behind a line break
BulletMarkers(chars) ==
  {i \in 1..Len(chars) :
     \/ chars[i] = "*"
     \/ chars[i] = "-" /\ i > 1 /\ chars[i - 1] \in {"\n", "\r"}}

\* the places where a whitespace-separated word ends
WordEnds(chars) ==
  {i \in 1..Len(chars) :
     chars[i] \notin WhiteSpace /\ (i = Len(chars) \/ chars[i + 1] \in WhiteSpace)}

\* the lines of the text that open with a bullet marker "-" or "*": a line
\* opens at the start of the text and behind every line break
BulletMarkerLines(chars) ==
  {i \in 1..Len(chars) :
     /\ chars[i] \in {"-", "*"}
     /\ i = 1 \/ chars[i - 1] \in {"\n", "\r"}}

\* C5 as stated: the signal term counts digit tokens plus bullet-marker lines
C5_ScoreCountsBulletLines ==
  (Done("calculateQualityScore") /\ Truthy(call.text)) =>
    LET chars == call.text.v
    IN  result.value.v =
          4 * 15 * Cardinality(CategoriesPresent(chars))
          + 4 * 10 * Min(3, Cardinality(DigitTokens(chars))
                            + Cardinality(BulletMarkerLines(chars)))
          + Min(120, Cardinality(WordEnds(chars)))

\* C5, amended: for every non-empty text the score is 15 x (categories with
\* a keyword in the text, case-insensitively, each counted once) + 10 x
\* min(3, digit tokens + bullet markers) + 0.25 x min(120, words), where a
\* bullet marker is any "*" or a "-" directly behind a line break; the score
\* lies between 0 and 105.  (Scores are in quarter points.)
C5_ScoreFormula ==
  (Done("calculateQualityScore") /\ Truthy(call.text)) =>
    LET chars == call.text.v
        score4 == result.value.v
    IN  /\ score4 =
             4 * 15 * Cardinality(CategoriesPresent(chars))
             + 4 * 10 * Min(3, Cardinality(DigitTokens(chars))
                               + Cardinality(BulletMarkers(chars)))
             + Min(120, Cardinality(WordEnds(chars)))
        /\ score4 >= 0
        /\ score4 <= 4 * 105

\* a text with two keywords of one category, a second category, more than
\* three signals and more than 120 words
C5_Witness ==
  /\ Done("calculateQualityScore")
  /\ Truthy(call.text)
  /\ Cardinality(CategoriesPresent(call.text.v)) = 2
  /\ includes(toLowerCase(call.text.v), <<"f","i","n","i","s","h","e","d">>)
  /\ Cardinality(DigitTokens(call.text.v)) > 3
  /\ Cardinality(WordEnds(call.text.v)) > 120
  /\ result.value.v = 4 * 30 + 4 * 30 + 120

\* a is an earlier instant than b
Before(a, b) == a.day < b.day \/ (a.day = b.day /\ a.ms < b.ms)

\* the positions of the records stamped inside [start, end], both ends included
InWindow(start, end) ==
  {i \in 1..Len(checkins) :
     ~Before(checkins[i].timestamp, start) /\ ~Before(end, checkins[i].timestamp)}

\* the positions of the records of a user
OfUser(userId) == {i \in 1..Len(checkins) : checkins[i].user_id = userId}

\* the records at the given positions, in input order
RecordsAt(positions) ==
  [k \in 1..Cardinality(positions) |->
     checkins[CHOOSE i \in positions : Cardinality({j \in positions : j < i}) = k - 1]]

Range(items) == {items[i] : i \in 1..Len(items)}

\* C1: findMissingCheckins(start, end) returns exactly the students of
\* getAllStudents() without a check-in stamped inside the window: no
\* returned student has one, every student not returned has one; with roster
\* [alice, bob] and a single check-in, by alice and inside the window, the
\* result is exactly [{id: bob, name: bob}].
C1_MissingAreThoseWithoutCheckin ==
  Done("findMissingCheckins") =>
    LET missing == result.value.v
        present == {checkins[i].user_id : i \in InWindow(call.start, call.end)}
    IN  /\ \A k \in 1..Len(missing) : missing[k].id \notin present
        /\ Range(missing) \subseteq Range(getAllStudents)
        /\ \A student \in Range(getAllStudents) :
             student \notin Range(missing) => student.id \in present
        /\ ( /\ roster = <<[id |-> alice, name |-> alice], [id |-> bob, name |-> bob]>>
             /\ Len(checkins) = 1
             /\ checkins[1].user_id = alice
             /\ InWindow(call.start, call.end) = {1} )
           => missing = <<[id |-> bob, name |-> bob]>>

\* roster [alice, bob], one check-in by alice inside the window: bob is missing
C1_Witness ==
  /\ Done("findMissingCheckins")
  /\ roster = <<[id |-> alice, name |-> alice], [id |-> bob, name |-> bob]>>
  /\ Len(checkins) = 1
  /\ checkins[1].user_id = alice
  /\ InWindow(call.start, call.end) = {1}
  /\ result.value.v = <<[id |-> bob, name |-> bob]>>

\* C9: getCheckinsByDateRange(start, end) returns, in input order, exactly
\* the records with start <= timestamp <= end, both bounds included;
\* getCheckinsForUser(userId, start, end) is that result restricted to the
\* user, and without a window (start or end not given) every record of the
\* user.
C9_WindowFilterInclusive ==
  /\ Done("getCheckinsByDateRange") =>
       result.value.v = RecordsAt(InWindow(call.start, call.end))
  /\ Done("getCheckinsForUser") =>
       result.value.v =
         IF call.start # Undefined /\ call.end # Undefined
         THEN RecordsAt(InWindow(call.start, call.end) \cap OfUser(call.userId))
         ELSE RecordsAt(OfUser(call.userId))

\* a record stamped exactly at the end of the window is returned, the one
\* stamped a millisecond later is not
C9_Witness ==
  /\ Done("getCheckinsByDateRange")
  /\ call.start = T1
  /\ call.end = T2
  /\ Len(checkins) = 2
  /\ checkins[1].timestamp = T3
  /\ checkins[2].timestamp = T2
  /\ result.value.v = <<checkins[2]>>

\* the call has a window that is empty (end before start) or of length zero
EmptyOrZeroWindow ==
  /\ pc = "done"
  /\ call.op \in {"getCheckinsByDateRange", "getCheckinsForUser", "summarizeRange",
                  "calculateConsistency", "findMissingCheckins"}
  /\ call.start # Undefined
  /\ call.end # Undefined
  /\ ~Before(call.start, call.end)

\* the result of the call is the one of a window that holds no record
EmptyResult ==
  /\ ~result.threw
  /\ call.op \in {"getCheckinsByDateRange", "getCheckinsForUser"} =>
       result.value.v = <<>>
  /\ call.op = "summarizeRange" => result.value = Null
  /\ call.op = "calculateConsistency" => result.value.days_checked_in = 0
  /\ call.op = "findMissingCheckins" => result.value.v = getAllStudents

\* C10 as stated: an inverted or zero-length window yields an empty result
C10_EmptyForInvertedOrZeroLength == EmptyOrZeroWindow => EmptyResult

\* C10, amended: an inverted window (end before start) yields an empty
\* result (empty list, null summary, zero days checked in, every student
\* missing) and no error, whatever the records; a zero-length window (end
\* equal to start) is the window of one instant, bounds included: it yields
\* the records stamped exactly at that instant, and the empty result only
\* when the agent holds no such record (of that user); no error either.
C10_EmptyForInvertedWindow ==
  EmptyOrZeroWindow =>
    LET atInstant == {i \in 1..Len(checkins) : checkins[i].timestamp = call.start}
        mine == IF call.op \in {"getCheckinsByDateRange", "findMissingCheckins"}
                THEN atInstant
                ELSE atInstant \cap OfUser(call.userId)
    IN  /\ ~result.threw
        /\ Before(call.end, call.start) => EmptyResult
        /\ (call.end = call.start /\ mine = {}) => EmptyResult
        /\ (call.end = call.start /\ mine # {}) =>
             /\ call.op \in {"getCheckinsByDateRange", "getCheckinsForUser"} =>
                  result.value.v = RecordsAt(mine)
             /\ call.op = "summarizeRange" =>
                  /\ result.value # Null
                  /\ result.value.entries = RecordsAt(mine)
             /\ call.op = "calculateConsistency" =>
                  result.value.days_checked_in = 1
             /\ call.op = "findMissingCheckins" =>
                  \A k \in 1..Len(result.value.v) :
                    result.value.v[k].id \notin {checkins[i].user_id : i \in mine}

\* a zero-length window returns the record stamped at its instant
C10_Witness ==
  /\ Done("getCheckinsByDateRange")
  /\ call.start = call.end
  /\ Len(checkins) = 2
  /\ checkins[1].timestamp = call.start
  /\ checkins[2].timestamp # call.start
  /\ result.value.v = <<checkins[1]>>

\* the sum of the weights Strong = 3, Medium = 2, Weak = 1 of the records at
\* the given positions
WeightSum(positions) ==
  3 * Cardinality({i \in positions : checkins[i].quality = Strong})
  + 2 * Cardinality({i \in positions : checkins[i].quality = Medium})
  + Cardinality({i \in positions : checkins[i].quality = Weak})

\* C6: summarizeRange(userId, start, end) is null exactly when the user has
\* no check-in in the window; otherwise total_checkins is the number n of
\* the user's check-ins in the window, entries are these records in input
\* order, average_quality_score is (sum of the weights) / n rounded to two
\* decimals (here in hundredths), and quality is Strong for an average
\* >= 2.5, Medium for one >= 1.75, Weak otherwise; all entries Strong give
\* 3.00 and Strong.
C6_RangeSummary ==
  Done("summarizeRange") =>
    LET mine == InWindow(call.start, call.end) \cap OfUser(call.userId)
        n == Cardinality(mine)
        sum == WeightSum(mine)
        summary == result.value
    IN  /\ ~result.threw
        /\ (summary = Null) = (n = 0)
        /\ n > 0 =>
             /\ summary.total_checkins = n
             /\ summary.entries = RecordsAt(mine)
             /\ 2 * (100 * sum - n * summary.average_quality_score) <= n
             /\ 2 * (n * summary.average_quality_score - 100 * sum) <= n
             /\ summary.quality = IF 2 * sum >= 5 * n THEN Strong
                                  ELSE IF 4 * sum >= 7 * n THEN Medium
                                  ELSE Weak
             /\ (\A i \in mine : checkins[i].quality = Strong) =>
                  (summary.average_quality_score = 300 /\ summary.quality = Strong)

\* three check-ins of the user in the window, Strong, Strong and Medium:
\* the average 8/3 is reported as 2.67 and the summary is Strong
C6_Witness ==
  /\ Done("summarizeRange")
  /\ result.value # Null
  /\ result.value.total_checkins = 3
  /\ WeightSum(InWindow(call.start, call.end) \cap OfUser(call.userId)) = 8
  /\ result.value.average_quality_score = 267
  /\ result.value.quality = Strong

\* the days (day numbers) of the calendar month that holds the given day:
\* the months of 2024 and of the first quarter of 2025
MonthsOfCalendar ==
  << <<0, 30>>, <<31, 59>>, <<60, 90>>, <<91, 120>>, <<121, 151>>, <<152, 181>>,
     <<182, 212>>, <<213, 243>>, <<244, 273>>, <<274, 304>>, <<305, 334>>,
     <<335, 365>>, <<366, 396>>, <<397, 424>>, <<425, 455>> >>

MonthDaysOf(day) ==
  LET m == CHOOSE m \in 1..Len(MonthsOfCalendar) :
             MonthsOfCalendar[m][1] <= day /\ day <= MonthsOfCalendar[m][2]
  IN  MonthsOfCalendar[m][1]..MonthsOfCalendar[m][2]

\* the days of the month on which the user has a check-in
DaysCheckedIn(userId, days) ==
  {d \in days : \E i \in OfUser(userId) : checkins[i].timestamp.day = d}

\* C7 as stated: for a user without a check-in in the month of the anchor,
\* summarizeMonth still reports a consistency with days_checked_in = 0 and
\* period_length = the days of the month
C7_MonthWithoutCheckinsHasConsistency ==
  ( /\ Done("summarizeMonth")
    /\ DaysCheckedIn(call.userId, MonthDaysOf(call.month.day)) = {} )
  => /\ ~result.threw
     /\ result.value # Null
     /\ result.value.consistency.days_checked_in = 0
     /\ result.value.consistency.period_length =
          Cardinality(MonthDaysOf(call.month.day))

\* C7, amended: for a user without a check-in in the month of the anchor,
\* summarizeMonth returns null, no summary and so no consistency; it is
\* calculateConsistency, called with that month as its window, that reports
\* days_checked_in = 0, period_length = the days of the month and
\* percentage 0, a value that is not null.
C7_MonthWithoutCheckinsIsNull ==
  /\ ( /\ Done("summarizeMonth")
       /\ DaysCheckedIn(call.userId, MonthDaysOf(call.month.day)) = {} )
     => result = Ok(Null)
  /\ ( /\ Done("calculateConsistency")
       /\ \E anchor \in MonthAnchors :
            call.start = startOfMonth(anchor) /\ call.end = endOfMonth(anchor)
       /\ DaysCheckedIn(call.userId, MonthDaysOf(call.start.day)) = {} )
     => result = Ok([days_checked_in |-> 0,
                     period_length |-> Cardinality(MonthDaysOf(call.start.day)),
                     percentage |-> 0])

\* the user has check-ins, none of them in April 2024: the summary of April
\* is null
C7_Witness ==
  /\ Done("summarizeMonth")
  /\ call.userId = alice
  /\ call.month.day \in 91..120
  /\ OfUser(alice) # {}
  /\ DaysCheckedIn(alice, 91..120) = {}
  /\ result = Ok(Null)

\* C8: in a monthly summary, consistency.days_checked_in is the number of
\* distinct calendar days of the month with a check-in of the user,
\* period_length the number of days of the month, days_checked_in <=
\* period_length, and percentage = 100 x days_checked_in / period_length
\* rounded to two decimals (here in hundredths); 10 days of a 30-day month
\* give 33.33.
C8_MonthConsistency ==
  (Done("summarizeMonth") /\ ~result.threw /\ result.value # Null) =>
    LET consistency == result.value.consistency
        month == MonthDaysOf(call.month.day)
        days == Cardinality(DaysCheckedIn(call.userId, month))
        length == Cardinality(month)
    IN  /\ consistency.days_checked_in = days
        /\ consistency.period_length = length
        /\ consistency.days_checked_in <= consistency.period_length
        /\ 2 * (10000 * days - length * consistency.percentage) <= length
        /\ 2 * (length * consistency.percentage - 10000 * days) <= length
        /\ (length = 30 /\ days = 10) => consistency.percentage = 3333

\* twenty check-ins on ten days of April: 10 of 30 days, 33.33
C8_Witness ==
  /\ Done("summarizeMonth")
  /\ ~result.threw
  /\ result.value # Null
  /\ result.value.total_checkins = 20
  /\ result.value.consistency =
       [days_checked_in |-> 10, period_length |-> 30, percentage |-> 3333]

\* the errors generateDashboard raises itself
ValidationErrors ==
  { Threw("Error", Text("userId is required to generate a dashboard.")),
    Threw("Error", Text("A timeframe with a type is required (daily, weekly, monthly).")),
    Threw("Error", Text("Daily dashboards require a date value.")) }
  \cup {Threw("Error", [t |-> "text",
                        v |-> "Unsupported timeframe type: ${timeframe.type}",
                        type |-> type]) : type \in TimeframeTypes}

\* the type of the timeframe, compared without regard to case, is `type`
TypeIs(timeframe, type) ==
  /\ IsStr(timeframe.type)
  /\ Len(timeframe.type.v) = Len(type)
  /\ \A i \in 1..Len(type) : toLowerCaseChar(timeframe.type.v[i]) = type[i]

\* C3: generateDashboard fails with a validation error and returns no
\* dashboard exactly when userId is missing, timeframe or timeframe.type is
\* missing, type is daily and neither date nor start is given, or type is
\* none of daily, weekly, monthly; for every other input, and for any
\* invalid type value, it raises one of these validation errors or returns
\* a dashboard whose type is daily, weekly or monthly, also when the user
\* has no entries (summary null).
C3_DashboardOrValidationError ==
  Done("generateDashboard") =>
    LET timeframe == call.timeframe
        rejected ==
          \/ ~Truthy(call.userId)
          \/ ~Truthy(timeframe)
          \/ ~Truthy(timeframe.type)
          \/ TypeIs(timeframe, TypeDaily)
               /\ ~Truthy(timeframe.date) /\ ~Truthy(timeframe.start)
          \/ ~\E type \in {TypeDaily, TypeWeekly, TypeMonthly} : TypeIs(timeframe, type)
    IN  /\ rejected => result \in ValidationErrors
        /\ ~rejected =>
             /\ ~result.threw
             /\ result.value.type \in {Str(TypeDaily), Str(TypeWeekly), Str(TypeMonthly)}
        /\ result.threw => result \in ValidationErrors

\* C2: answerQuestion never throws: for every question, every set of records
\* that carry message_id, user_id and timestamp (other fields possibly
\* absent) and every roster it returns a response object.
C2_AnswerQuestionNeverThrows ==
  Done("answerQuestion") => ~result.threw /\ result.value.t = "answer"

Labels == {Strong, Medium, Weak}

\* C11: every quality label a record of the agent holds, and every label a
\* range summary reports (its own and those of its entries), is one of
\* Strong, Medium, Weak, also for records that arrive with a label.
C11_LabelsAreOfTheThree ==
  /\ \A i \in 1..Len(checkins) : checkins[i].quality \in Labels
  /\ (Done("summarizeRange") /\ result.value # Null) =>
       /\ result.value.quality \in Labels
       /\ \A i \in 1..Len(result.value.entries) :
            result.value.entries[i].quality \in Labels

\* C12: getAllStudents holds no id twice; its ids are the ids of the roster
\* and the user ids of the check-ins; for an id of the roster the entry is
\* the roster's (the first one of that id), whatever the check-ins say.
C12_StudentsUniqueRosterFirst ==
  Done("getAllStudents") =>
    LET students == result.value.v
    IN  /\ ~result.threw
        /\ \A i, j \in 1..Len(students) : students[i].id = students[j].id => i = j
        /\ {students[i].id : i \in 1..Len(students)} =
             {roster[i].id : i \in 1..Len(roster)}
             \cup {checkins[i].user_id : i \in 1..Len(checkins)}
        /\ \A i \in 1..Len(students) :
             \A k \in 1..Len(roster) :
               ( /\ roster[k].id = students[i].id
                 /\ \A j \in 1..(k - 1) : roster[j].id # roster[k].id )
               => students[i] = roster[k]

\* the roster names bob twice, as "Bobby" first, and a check-in of bob has
\* no name: bob is listed once, as "Bobby"
C12_Witness ==
  /\ Done("getAllStudents")
  /\ Cardinality({k \in 1..Len(roster) : roster[k].id = bob}) = 2
  /\ \E i \in 1..Len(checkins) : checkins[i].user_id = bob
  /\ \E i \in 1..Len(checkins) : checkins[i].user_id = alice
  /\ Cardinality({i \in 1..Len(result.value.v) : result.value.v[i].id = bob}) = 1
  /\ \E i \in 1..Len(result.value.v) :
       result.value.v[i] = [id |-> bob, name |-> Str(<<"B","o","b","b","y">>)]

\* the first of the values that is given and not empty; a value that is not
\* given or empty if there is none
FirstGiven(values, v) ==
  IF \E k \in 1..Len(values) : Truthy(values[k])
  THEN \E k \in 1..Len(values) :
         /\ Truthy(values[k])
         /\ \A j \in 1..(k - 1) : ~Truthy(values[j])
         /\ v = values[k]
  ELSE ~Truthy(v)

\* what a roster entry is normalized to
Canonical(entry, normalized) ==
  IF entry.t = "str" THEN normalized = [id |-> entry, name |-> entry]
  ELSE IF entry.t = "array"
  THEN normalized = [id |-> Undefined, name |-> Undefined]
  ELSE /\ FirstGiven(<<entry.id, entry.user_id, entry.email, entry.name>>, normalized.id)
       /\ FirstGiven(<<entry.name, entry.display_name, entry.real_name, entry.id>>,
                     normalized.name)

\* C13: normalizing a roster never fails, for an absent roster and for any
\* array of strings, partial objects, nulls and other values; the result
\* holds, in input order, one {id, name} entry per string or object and
\* nothing for null and for values that are neither: a string s gives
\* {id: s, name: s}, an object gives id = the first given (non-empty) of id,
\* user_id, email, name and name = the first given of name, display_name,
\* real_name, id.
C13_RosterNormalization ==
  Done("normalizeRoster") =>
    LET entries == IF call.roster = Undefined THEN <<>> ELSE call.roster.v
        valid == SelectSeq(entries, LAMBDA e : e.t \in {"str", "object", "array"})
    IN  /\ ~result.threw
        /\ result.value.v = roster
        /\ Len(roster) = Len(valid)
        /\ \A i \in 1..Len(valid) : Canonical(valid[i], roster[i])

\* a string, null and a partial object: two entries, the object's id is its
\* e-mail address and its name its display name
C13_Witness ==
  /\ Done("normalizeRoster")
  /\ call.roster.t = "array"
  /\ Len(call.roster.v) = 2
  /\ call.roster.v[1] = Null
  /\ call.roster.v[2].t = "object"
  /\ ~Truthy(call.roster.v[2].id) /\ ~Truthy(call.roster.v[2].user_id)
  /\ ~Truthy(call.roster.v[2].name)
  /\ Len(roster) = 1
  /\ roster[1] = [id |-> Str(<<"b","@","x",".","i","o">>),
                  name |-> Str(<<"b","o","b","b","y">>)]

\* the text sub occurs in the text s
Occurs(sub, s) ==
  \E i \in 1..(Len(s) - Len(sub) + 1) : SubSeq(s, i, i + Len(sub) - 1) = sub

\* the intents in their fixed order, each with its trigger phrases
Triggers ==
  << [intent |-> "yesterday", all |-> {<<"w","h","o"," ","c","h","e","c","k","e","d"," ","i","n"," ","y","e","s","t","e","r","d","a","y">>}, some |-> {}],
     [intent |-> "missing", all |-> {},
      some |-> {<<"w","h","o"," ","d","i","d","n","'","t">>, <<"w","h","o"," ","d","i","d"," ","n","o","t">>}],
     [intent |-> "quality", all |-> {<<"q","u","a","l","i","t","y"," ","o","f">>}, some |-> {}],
     [intent |-> "progress", all |-> {<<"s","u","b","s","t","a","n","t","i","a","l"," ","p","r","o","g","r","e","s","s">>}, some |-> {}],
     [intent |-> "range", all |-> {<<"b","e","t","w","e","e","n">>, <<"c","h","e","c","k","e","d"," ","i","n">>}, some |-> {}],
     [intent |-> "blockers", all |-> {<<"b","l","o","c","k","e","r","s">>}, some |-> {}] >>

Triggered(k, question) ==
  LET lower == toLowerCase(question)
  IN  /\ \A phrase \in Triggers[k].all : Occurs(phrase, lower)
      /\ Triggers[k].some = {} \/ \E phrase \in Triggers[k].some : Occurs(phrase, lower)

\* the first intent whose trigger occurs in the question
Intent(question) ==
  IF \E k \in 1..Len(Triggers) : Triggered(k, question)
  THEN Triggers[CHOOSE k \in 1..Len(Triggers) :
                  /\ Triggered(k, question)
                  /\ \A j \in 1..(k - 1) : ~Triggered(j, question)].intent
  ELSE "fallback"

\* C14: answerQuestion answers with exactly the handler of the first intent,
\* in the order yesterday, missing, quality, progress, range, blockers,
\* whose trigger phrase occurs in the question without regard to case, also
\* when triggers of several intents occur; without any trigger it returns
\* the fallback, a normal response that echoes the question and lists what
\* is supported.
C14_FirstIntentAnswers ==
  Done("answerQuestion") =>
    LET question == call.question
        intent == Intent(question)
    IN  /\ intent = "yesterday" => result = answerYesterday
        /\ intent = "missing" => result = answerMissingRecent(toLowerCase(question))
        /\ intent = "quality" => result = answerQualityQuestion(question)
        /\ intent = "progress" => result = answerProgressThisWeek
        /\ intent = "range" => result = answerDateRangeListing(question)
        /\ intent = "blockers" => result = answerBlockersThisWeek
        /\ intent = "fallback" =>
             /\ ~result.threw
             /\ result.value.question = Str(question)
             /\ result.value.answer =
                  Text("I'm not sure how to answer that yet, but I can help with check-in summaries, quality, blockers, and attendance.")

\* a question with the triggers of the missing check-ins, the quality and
\* the blockers intents is answered with the missing check-ins
C14_Witness ==
  /\ Done("answerQuestion")
  /\ Occurs(<<"w","h","o"," ","d","i","d","n","'","t">>, toLowerCase(call.question))
  /\ Occurs(<<"q","u","a","l","i","t","y"," ","o","f">>, toLowerCase(call.question))
  /\ ~result.threw
  /\ result.value.question = Text("Students missing check-ins")

\* the decimal numeral of n < 100
Numeral(n) ==
  IF n < 10 THEN <<DecimalDigits[n + 1]>>
  ELSE <<DecimalDigits[(n \div 10) + 1], DecimalDigits[(n % 10) + 1]>>

\* the N of "past N days" in the question, 3 without
PastDays(question) ==
  LET lower == toLowerCase(question)
      given == {n \in 0..99 : Occurs(<<"p","a","s","t"," ">> \o Numeral(n) \o <<" ","d","a","y">>, lower)}
  IN  IF given = {} THEN 3 ELSE CHOOSE n \in given : TRUE

\* the names of the students without a check-in on the days first..last
MissingNames(first, last) ==
  LET absent == SelectSeq(getAllStudents,
                  LAMBDA student :
                    ~\E i \in 1..Len(checkins) :
                       /\ checkins[i].user_id = student.id
                       /\ checkins[i].timestamp.day \in first..last)
  IN  [k \in 1..Len(absent) |-> absent[k].name]

\* missing and note of an attendance answer over the days first..last
RosterDependent(answer, first, last) ==
  IF roster = <<>>
  THEN /\ answer.missing = <<>>
       /\ answer.note.t = "text"
       /\ answer.note.v # ""
  ELSE /\ answer.missing = MissingNames(first, last)
       /\ answer.note = Undefined

\* C15: the yesterday answer lists in checked_in one name for every user
\* with a check-in dated yesterday; the missing answer covers the last N
\* days ending today, N from "past N days" or 3. In both, an empty roster
\* gives missing = [] and a note that is a non-empty text; a roster that is
\* not empty gives as missing the names of the students without a check-in
\* in the window, and no note.
C15_AttendanceAnswers ==
  Done("answerQuestion") =>
    /\ Intent(call.question) = "yesterday" =>
         LET dated == {i \in 1..Len(checkins) : checkins[i].timestamp.day = now.day - 1}
             ids == {checkins[i].user_id : i \in dated}
             names == result.value.checked_in
         IN  /\ ~result.threw
             /\ result.value.date = format(Date(now.day - 1, 0))
             /\ Len(names) = Cardinality(ids)
             /\ \A id \in ids : \E k \in 1..Len(names) : \E i \in dated :
                  checkins[i].user_id = id /\ checkins[i].user_name = names[k]
             /\ RosterDependent(result.value, now.day - 1, now.day - 1)
    /\ Intent(call.question) = "missing" =>
         LET days == PastDays(call.question)
         IN  /\ ~result.threw
             /\ result.value.end = format(now)
             /\ result.value.start = format(Date(now.day - days + 1, 0))
             /\ RosterDependent(result.value, now.day - days + 1, now.day)

\* the scenario of the empty roster: somebody checked in yesterday, missing
\* is empty and a note is given
C15_Witness ==
  /\ Done("answerQuestion")
  /\ Intent(call.question) = "yesterday"
  /\ roster = <<>>
  /\ Len(result.value.checked_in) = 2
  /\ result.value.missing = <<>>
  /\ result.value.note = Text("Provide a roster list to identify missing check-ins.")

\* C16: a quality question raises no error. If no name can be read, the
\* name is no student's or the date token cannot be read, the answer is an
\* explanatory text. Otherwise, if the student has no check-in on the
\* resolved day (so also if none in its week), the answer says that the
\* student did not check in on that date; if the student has check-ins on
\* that day, the answer reports the label of the earliest of them, the first
\* in input order among equal timestamps.
C16_QualityAnswer ==
  (Done("answerQuestion") /\ Intent(call.question) = "quality") =>
    LET question == call.question
        nameMatch == matchQualityName(question)
        dateMatch == matchOnDate(question)
        studentName == trim(nameMatch.g1)
        students == getAllStudents
        named == {i \in 1..Len(students) :
                    /\ IsStr(students[i].name)
                    /\ toLowerCase(students[i].name.v) = toLowerCase(studentName)}
        date == IF dateMatch.found THEN parseDateToken(dateMatch.g1, Undefined)
                ELSE Date(now.day, 0)
    IN  /\ ~result.threw
        /\ result.value.question = Str(question)
        /\ IF ~nameMatch.found
           THEN result.value.answer =
                  Text("Please specify the student name whose check-in quality you want to review.")
           ELSE IF named = {}
           THEN result.value.answer =
                  [text |-> "I could not find a student named ${studentName}.",
                   studentName |-> studentName]
           ELSE IF date = Null
           THEN result.value.answer =
                  Text("I was unable to interpret the requested date.")
           ELSE
             LET user == students[CHOOSE i \in named : \A j \in named : i <= j]
                 onDay == {i \in 1..Len(checkins) :
                             /\ checkins[i].user_id = user.id
                             /\ checkins[i].timestamp.day = date.day}
                 earliest == CHOOSE i \in onDay :
                               \A j \in onDay :
                                 \/ checkins[i].timestamp.ms < checkins[j].timestamp.ms
                                 \/ /\ checkins[i].timestamp.ms = checkins[j].timestamp.ms
                                    /\ i <= j
             IN  IF onDay = {}
                 THEN result.value.answer =
                        [text |-> "${studentName} did not check in on ${date}.",
                         studentName |-> studentName,
                         date |-> format(Date(date.day, 0))]
                 ELSE /\ result.value.answer.studentName = studentName
                      /\ result.value.answer.date = format(Date(date.day, 0))
                      /\ result.value.answer.quality = checkins[earliest].quality

BlockerWords ==
  { <<"b","l","o","c","k","e","r">>, <<"b","l","o","c","k","e","d">>, <<"s","t","u","c","k">>, <<"i","s","s","u","e">>,
    <<"p","r","o","b","l","e","m">>, <<"w","a","i","t","i","n","g">>, <<"d","e","l","a","y">> }

\* C17: a weekly dashboard that is returned covers the ISO week, Monday
\* through Sunday, of the anchor start, else date, else today: week_start
\* is that Monday and week_end the Sunday six days later; the summary is
\* null when the user has no check-in in that week; otherwise total_checkins
\* is the number of the user's check-ins in that week and blockers holds, in
\* order, exactly those of them whose text contains a blocker keyword
\* without regard to case; check-ins of other users or outside the week do
\* not appear.
C17_WeeklyDashboard ==
  ( /\ Done("generateDashboard")
    /\ Truthy(call.userId)
    /\ Truthy(call.timeframe)
    /\ TypeIs(call.timeframe, TypeWeekly)
    /\ ~result.threw )
  => LET timeframe == call.timeframe
         anchor == IF Truthy(timeframe.start) THEN timeframe.start
                   ELSE IF Truthy(timeframe.date) THEN timeframe.date
                   ELSE now
         monday == anchor.day - (anchor.day % 7)
         inWeek == SelectSeq(checkins,
                     LAMBDA checkin :
                       /\ checkin.user_id = call.userId
                       /\ checkin.timestamp.day \in monday..(monday + 6))
         blocking == SelectSeq(inWeek,
                       LAMBDA checkin :
                         \E word \in BlockerWords :
                           Occurs(word, toLowerCase(checkin.message_content.v)))
         dashboard == result.value
     IN  /\ dashboard.type = Str(TypeWeekly)
         /\ dashboard.week_start = format(Date(monday, 0))
         /\ dashboard.week_end = format(Date(monday + 6, 0))
         /\ inWeek = <<>> => dashboard.summary = Null
         /\ inWeek # <<>> =>
              /\ dashboard.summary.total_checkins = Len(inWeek)
              /\ dashboard.summary.entries = inWeek
              /\ dashboard.summary.blockers =
                   [k \in 1..Len(blocking) |->
                      [user_id |-> blocking[k].user_id,
                       user_name |-> blocking[k].user_name,
                       timestamp |-> blocking[k].timestamp,
                       message |-> blocking[k].message_content]]

\* the week of today: check-ins of the user on two days of it, one of them
\* with a blocker keyword
C17_Witness ==
  /\ Done("generateDashboard")
  /\ Truthy(call.userId)
  /\ Truthy(call.timeframe)
  /\ TypeIs(call.timeframe, TypeWeekly)
  /\ ~result.threw
  /\ result.value.week_start = format(Date(98, 0))
  /\ result.value.summary # Null
  /\ result.value.summary.total_checkins = 2
  /\ checkins[1].timestamp.day # checkins[2].timestamp.day
  /\ Len(result.value.summary.blockers) = 1

\* the texts a classified text is compared with: none to three categories,
\* none to five signals, few words to more than 120
MonotoneHeads ==
  { <<>>,
    <<"d","o","n","e"," ">>,
    <<"3"," ">>,
    <<"d","o","n","e"," ","P","l","a","n"," ">>,
    <<"P","l","a","n"," ","1"," ","2"," ","3"," ","a","n","d"," ","s","t","u","c","k"," ">>,
    <<"P","l","a","n"," ","1"," ","2"," ","3"," ","4"," ","s","t","u","c","k"," ">>,
    <<"d","o","n","e"," ","P","l","a","n"," ","s","t","u","c","k"," ","1"," ","2"," ","3"," ">>,
    <<"*"," ","\n","-"," ">> }

MonotoneTexts ==
  {Str(head \o Pad(n)) : head \in MonotoneHeads, n \in {0, 20, 40, 80, 120, 121}}

\* the three score components of a text: the number of keyword categories,
\* the number of signals capped at 3, the number of words capped at 120
Components(chars) ==
  [categories |-> Cardinality(CategoriesPresent(chars)),
   signals |-> Min(3, Cardinality(DigitTokens(chars)) + Cardinality(BulletMarkers(chars))),
   words |-> Min(120, Cardinality(WordEnds(chars)))]

\* Weak < Medium < Strong
Rank(label) == IF label = Strong THEN 2 ELSE IF label = Medium THEN 1 ELSE 0

\* the components and the label of every text of comparison
Compared ==
  [text \in MonotoneTexts |->
     [components |-> Components(text.v), rank |-> Rank(classifyCheckinQuality(text))]]

\* every component of a is at most that of b
AtMost(a, b) ==
  /\ a.categories <= b.categories
  /\ a.signals <= b.signals
  /\ a.words <= b.words

\* C18: for any two texts, if the category count, the signal count capped
\* at 3 and the word count capped at 120 of the first are each at most
\* those of the second, the label of the second is not lower than the label
\* of the first, and the other way round (Weak < Medium < Strong).
C18_LabelMonotone ==
  (Done("classifyCheckinQuality") /\ call.text # Undefined) =>
    LET mine == Components(call.text.v)
        rank == Rank(result.value)
    IN  \A other \in MonotoneTexts :
          /\ AtMost(mine, Compared[other].components) => rank <= Compared[other].rank
          /\ AtMost(Compared[other].components, mine) => Compared[other].rank <= rank

\* a Medium text with more than three signals; among the texts of
\* comparison one that exceeds it in nothing but words and is Strong, one
\* of as many categories that falls behind and is Weak, and one with the
\* same components
C18_Witness ==
  /\ Done("classifyCheckinQuality")
  /\ call.text # Undefined
  /\ result.value = Medium
  /\ Cardinality(DigitTokens(call.text.v)) > 3
  /\ LET mine == Components(call.text.v)
     IN  /\ \E other \in MonotoneTexts :
              /\ AtMost(mine, Compared[other].components)
              /\ Compared[other].components.categories = mine.categories
              /\ Compared[other].components.signals = mine.signals
              /\ Compared[other].rank = 2
         /\ \E other \in MonotoneTexts :
              /\ AtMost(Compared[other].components, mine)
              /\ Compared[other].components.categories = mine.categories
              /\ Compared[other].rank = 0
         /\ \E other \in MonotoneTexts : Compared[other].components = mine

\* C19 as stated: the text "Finished the login feature, 3 PRs merged." is
\* classified Strong, by classifyCheckinQuality and as the quality of the
\* record of an agent constructed from a check-in with that text and no label
C19_LoginTextIsStrong ==
  /\ (Done("classifyCheckinQuality") /\ call.text = TextLogin) => result.value = Strong
  /\ \A i \in 1..Len(checkins) :
       checkins[i].message_content = TextLogin => checkins[i].quality = Strong

\* C19, amended: the text "Finished the login feature, 3 PRs merged." (one
\* keyword category, one digit token, no bullet marker, 7 words) scores
\* 15 + 10 + 1.75 = 26.75 and is classified Weak, by classifyCheckinQuality
\* and as the quality of the record of an agent constructed from a check-in
\* with that text and no label.
C19_LoginTextIsWeak ==
  /\ (Done("calculateQualityScore") /\ call.text = TextLogin) =>
       result.value = Num(4 * 15 + 4 * 10 + 7)
  /\ (Done("classifyCheckinQuality") /\ call.text = TextLogin) => result.value = Weak
  /\ \A i \in 1..Len(checkins) :
       checkins[i].message_content = TextLogin => checkins[i].quality = Weak

\* the text classified, beside an agent constructed from a record with it
C19_Witness ==
  /\ Done("classifyCheckinQuality")
  /\ call.text = TextLogin
  /\ Cardinality(CategoriesPresent(TextLogin.v)) = 1
  /\ Cardinality(DigitTokens(TextLogin.v)) = 1
  /\ BulletMarkers(TextLogin.v) = {}
  /\ Cardinality(WordEnds(TextLogin.v)) = 7
  /\ Len(checkins) = 1
  /\ checkins[1].message_content = TextLogin

C20_WitnessFailed ==
  /\ pc = "ready"
  /\ call.op # "none"
  /\ result.threw

\* the token without blanks around it, without a final full stop, in lower
\* case
Normal(token) ==
  LET stripped == trim(token)
  IN  toLowerCase(IF stripped # <<>> /\ stripped[Len(stripped)] = "."
                  THEN SubSeq(stripped, 1, Len(stripped) - 1)
                  ELSE stripped)

\* the date a token stands for: a literal date is that date; a weekday name
\* is that weekday of the week, Monday through Sunday, of the reference (of
\* the clock date without a reference); yesterday, today, tomorrow are the
\* clock date less one day, itself, and plus one day; no other token stands
\* for a date
Resolved(token, reference) ==
  LET normal == Normal(token)
      anchor == IF reference = Undefined THEN now ELSE reference
      monday == anchor.day - (anchor.day % 7)
  IN  IF IsValid(parseIsoStrict(normal)) THEN parseIsoStrict(normal)
      ELSE IF \E k \in 1..7 : weekdays[k] = normal
      THEN Date(monday + (CHOOSE k \in 1..7 : weekdays[k] = normal) - 1, 0)
      ELSE IF normal = <<"y","e","s","t","e","r","d","a","y">> THEN Date(now.day - 1, 0)
      ELSE IF normal = <<"t","o","d","a","y">> THEN Date(now.day, 0)
      ELSE IF normal = <<"t","o","m","o","r","r","o","w">> THEN Date(now.day + 1, 0)
      ELSE Null

\* C21: in the answer to a date-range question "between A and B" each token
\* is resolved so: a literal YYYY-MM-DD date is that date; a weekday name is
\* that weekday of the reference week (for A the current ISO week, for B
\* the week of the resolved A), so that the date falls on the named
\* weekday; yesterday, today, tomorrow are the clock date -1, 0, +1 day;
\* any other token is unparseable, and an unparseable A or B gives the soft
\* response instead of a listing.
C21_DateTokenResolution ==
  ( /\ Done("answerQuestion")
    /\ Intent(call.question) = "range"
    /\ matchBetween(call.question).found )
  => LET match == matchBetween(call.question)
         start == Resolved(match.g1, Undefined)
         end == IF start = Null THEN Null ELSE Resolved(match.g2, start)
     IN  IF start = Null \/ end = Null
         THEN result = Answer(call.question,
                              Text("I was unable to interpret the provided date range."))
         ELSE ~result.threw =>
                /\ result.value.start = format(start)
                /\ result.value.end = format(end)

\* the same with the weekday B counted from the resolved A in place of the
\* Monday of its week
C21_EndCountedFromStart ==
  ( /\ Done("answerQuestion")
    /\ Intent(call.question) = "range"
    /\ matchBetween(call.question).found )
  => LET match == matchBetween(call.question)
         start == Resolved(match.g1, Undefined)
         named == IF start = Null THEN Null ELSE Resolved(match.g2, start)
         end == IF named = Null THEN Null
                ELSE IF \E k \in 1..7 : weekdays[k] = Normal(match.g2)
                THEN Date(named.day + (start.day % 7), 0)
                ELSE named
     IN  IF start = Null \/ end = Null
         THEN result = Answer(call.question,
                              Text("I was unable to interpret the provided date range."))
         ELSE ~result.threw =>
                /\ result.value.start = format(start)
                /\ result.value.end = format(end)

\* the cursor a response hands on: response_metadata.next_cursor, nothing
\* without response_metadata
CursorOf(response) ==
  IF response.response_metadata = Undefined THEN Undefined
  ELSE response.response_metadata.next_cursor

\* the messages of the pages received, in page order
Fetched ==
  Flatten([k \in 1..Len(slack.responses) |->
             IF slack.responses[k].messages = Undefined THEN <<>>
             ELSE slack.responses[k].messages.v])

\* what holds of the requests, the responses and the result at every moment
\* of a call on a configured service
C22_PagesInOrder ==
  (call.op = "fetchChannelMessages" /\ Truthy(slack.client)) =>
    LET requests == slack.requests
        responses == slack.responses
        n == Len(requests)
    IN  /\ Len(responses) = n
        /\ \A k \in 1..n :
             requests[k].cursor = IF k = 1 THEN Undefined ELSE CursorOf(responses[k - 1])
        /\ \A k \in 1..(n - 1) :
             Truthy(responses[k].ok) /\ Truthy(responses[k].has_more)
        /\ (n >= 1 /\ ~Truthy(responses[n].ok)) =>
             /\ pc = "done"
             /\ result = Threw("Error", [t |-> "text",
                                         v |-> "Slack API error: ${response.error}",
                                         error |-> responses[n].error])
        /\ (pc = "done" /\ result.threw) => (n >= 1 /\ ~Truthy(responses[n].ok))
        /\ (pc = "done" /\ ~result.threw) =>
             /\ n >= 1
             /\ Truthy(responses[n].ok)
             /\ ~Truthy(responses[n].has_more)
             /\ result.value =
                  Arr(SelectSeq(Fetched,
                                LAMBDA message :
                                  /\ message.subtype \in {Undefined, Str(<<>>)}
                                  /\ message.text \notin {Undefined, Str(<<>>)}))

\* C22: fetchChannelMessages requests the history pages one after another,
\* each request with the cursor of the response before it (none when none
\* was returned), and goes on while has_more is true; at the first response
\* whose has_more is not true it stops and returns the messages of all pages
\* in page order, without those that have a subtype or no text; a response
\* with ok = false ends the call with an error and no messages; and a call
\* ends whenever Slack reports has_more = false or an error within the
\* pages it serves.
C22_Pagination ==
  /\ []C22_PagesInOrder
  /\ (pc = "while") ~>
       (pc = "done" \/ (Len(slack.requests) = MaxPages /\ Truthy(slack.hasMore)))

\* two pages fetched, the second with the cursor of the first; messages with
\* a subtype or without text were among them
C22_Witness ==
  /\ pc = "done"
  /\ ~result.threw
  /\ Len(slack.requests) = 2
  /\ slack.requests[2].cursor = Str(<<"c","1">>)
  /\ Len(Fetched) = 3
  /\ Len(result.value.v) = 1

\* two pages fetched, the second without a cursor
C22_WitnessNoCursor ==
  /\ pc = "done"
  /\ Len(slack.requests) = 2
  /\ slack.responses[1].response_metadata = Undefined
  /\ slack.requests[2].cursor = Undefined

====
